---- MODULE Spec2Model ----
(***************************************************************************)
(* A model of the MGPU kernel driver's command-submission core:            *)
(*   - the job scheduler (mgpu_sched.c): jobs, priority buckets, the       *)
(*     scheduler worker, completion, cancellation, the timeout sweep and   *)
(*     teardown, with the kernel's struct list_head modelled pointer by    *)
(*     pointer (a job has ONE list node, shared by every list it is put    *)
(*     on);                                                                *)
(*   - the command ring (mgpu_cmdq.c): space accounting, write, kick;      *)
(*   - the reset engine (mgpu_reset.c): schedule, the reset work item,     *)
(*     the callers of mgpu_reset_wait;                                     *)
(*   - the interrupt path: the top half and the tasklet of either file     *)
(*     that registers them.                                                *)
(***************************************************************************)
EXTENDS Integers, Sequences, FiniteSets, TLC

\* ------------------------------------------------------------------ bounds
\* Number of job slots (calls of mgpu_sched_submit) a behaviour may use.
MaxJobs == 2
\* job slots, all of which the start-and-completion specification allocates
MaxStartJobs == 3
\* Number of ring submissions a behaviour of SpecRing may make.
MaxSubmits == 4
\* Number of reset requests a behaviour may make.
MaxResets == 4
\* callers of mgpu_reset_wait
MaxWaiters == 2
MaxKicks == 2
MaxRingWrites == 3
MaxNextCalls == 3

\* ------------------------------------------------------- program constants
MGPU_PRIORITY_LOW == 0
MGPU_PRIORITY_NORMAL == 1
MGPU_PRIORITY_HIGH == 2
MGPU_PRIORITY_REALTIME == 3
MGPU_NUM_PRIORITIES == 4
\* queue->queue_depth as set by mgpu_queue_create
QUEUE_DEPTH == 16
MGPU_RING_SIZE_MIN == 4096

Priorities == 0 .. (MGPU_NUM_PRIORITIES - 1)
Jobs == 1 .. MaxStartJobs
Waiters == 1 .. MaxWaiters
\* The bits of IRQ_STATUS both tasklets dispatch on.
IrqBits == {"CMD_COMPLETE", "ERROR"}
\* Two files define a static mgpu_irq_handler and mgpu_irq_tasklet_func and
\* register them on mdev->irq: the one with mgpu_irq_init and the one with
\* mgpu_probe.
IrqRegistrars == {"mgpu_irq_init", "mgpu_probe"}

\* ------------------------------------------------- list nodes (addresses)
\* Every struct list_head of the scheduler is a node: the jobs' `list`
\* members (node j is job j's), and the list heads below.
all_jobs == 101
completed_jobs == 102
pending(p) == 110 + p
LIST_POISON1 == 201
LIST_POISON2 == 202

PendingHeads == {pending(p) : p \in Priorities}
Heads == {all_jobs, completed_jobs} \cup PendingHeads
Nodes == Jobs \cup Heads
Poison == {LIST_POISON1, LIST_POISON2}

VARIABLES
    \* ---- scheduler (mgpu_sched.c)
    nxt,             \* list_head.next of every node
    prv,             \* list_head.prev of every node
    debug_list,      \* the build has CONFIG_DEBUG_LIST
    state,           \* job->state ("NONE": the slot is not allocated yet)
    priority,        \* job->priority
    dep_count,       \* job->dep_count
    dependents,      \* job->dependents, as the sequence of dep->dep_job
    commands,        \* job->commands != NULL and job->cmd_size != 0
    result,          \* job->result
    done,            \* job->completion.done
    signals,         \* history: how many times complete(&job->completion) ran
    overdue,         \* now - job->start_time > job->timeout_ms
    args,            \* the mgpu_submit_args of the call that created the job
    spc,             \* where the caller of mgpu_sched_submit is, per job
    next_job_id,     \* sched->next_job_id
    pending_starts,  \* queue->pending_starts
    current_job,     \* queue->current_job (0: NULL)
    busy,            \* queue->busy
    sel,             \* the job the worker removed from a bucket (0: none)
    selp,            \* the bucket index it was removed from
    started,         \* the worker in mgpu_queue_submit_job: "no", "marked"
                     \* (the job is marked running), "kicked" (the ring was
                     \* kicked), "loaded" (pending_starts read)
    ps_tmp,          \* the worker's register holding queue->pending_starts
    ipc,             \* mgpu_queue_irq_handler: "idle", "dec" (pending_starts read)
    irq_tmp,         \* the handler's register holding queue->pending_starts
    irq_job,         \* the handler's local job
    irq_err,         \* the handler read MGPU_STATUS_ERROR
    job_lock,        \* sched->job_lock: "free", or "dead" (its holder died)
    queue_lock,      \* queue->lock: "free", or "dead"
    panic,           \* the kernel died in interrupt context
    fpc,             \* mgpu_sched_fini: "run", "destroy", "freed"
    \* ---- reset (mgpu_reset.c)
    in_reset,        \* mdev->in_reset
    reset_count,     \* mdev->reset_count
    reset_pending,   \* mdev->reset_work is queued
    rpc,             \* where mgpu_reset_work is: "idle", "started", "in_reset"
    cycles,          \* history: reset cycles that have started
    requests,        \* history: calls of mgpu_reset_schedule
    reset_failed,    \* history: mgpu_reset_work has left through a failure
    wpc,             \* where each caller of mgpu_reset_wait is: "none",
                     \* "blocked" (asleep on mdev->reset_wait), "woken",
                     \* "ret0" (returned 0), "timedout" (returned -ETIMEDOUT)
    \* ---- command ring (mgpu_cmdq.c)
    ring_tail,       \* ring->tail
    cmd_head,        \* the device's CMD_HEAD register
    cmd_tail,        \* the device's CMD_TAIL register
    doorbells,       \* history: doorbell writes
    submitted_cmds,  \* ring->submitted_cmds
    owned,           \* history: dwords written and not yet consumed
    clobbered,       \* history: a write stored over an unconsumed dword
    \* ---- interrupts (mgpu_irq_handler, mgpu_irq_tasklet_func)
    irq_by,          \* who registered the handler and the tasklet that run:
                     \* "mgpu_irq_init", "mgpu_probe" ("none": nobody yet)
    hw_irq,          \* the device's IRQ_STATUS register, as a set of bits
    irq_status,      \* mdev->irq_status
    tasklet_sched,   \* mdev->irq_tasklet is scheduled
    tpc,             \* mgpu_irq_handler: "idle", "acked", "loaded"
    th_status,       \* the top half's local status
    th_tmp,          \* the top half's register holding mdev->irq_status
    bpc,             \* mgpu_irq_tasklet_func: "idle", "taken", "dispatch"
    bh_status,       \* the tasklet's local status
    owed,            \* history: bits read and acked, not yet dispatched
    \* ---- device registers (mgpu_mmio.h)
    regs,            \* the host-programmed registers, by name
    \* ---- dependencies (mgpu_job_add_dependency)
    deps,            \* job->deps, as the sequence of dep->dep_job
    \* ---- history
    qseq,            \* the jobs mgpu_sched_submit_job has queued, in call order
    \* ---- the producers of the ring, step by step
    cmd_lock,        \* mdev->cmd_lock: "free", or the producer holding it
    ppc,             \* where each producer is: "idle", "locked", "stored"
                     \* (mgpu_ring_write before ring->tail = tail), "written",
                     \* "tailed" (CMD_TAIL written), "kicked" (doorbell rung)
    ptail,           \* the local tail of mgpu_ring_write
    pfence,          \* the call still has its fence command to write
    mem_upto,        \* history: the ring index the last stores ended at
    \* ---- a ring made by mgpu_ring_create for a requested size
    mring            \* NoRing, or the ring with its registers: asked (the
                     \* requested size), size, tail, last_head, head and
                     \* cmd_tail (CMD_HEAD, CMD_TAIL), writes (history)
VARIABLES
    sub_ret          \* what the last direct call of mgpu_submit_commands
                     \* returned ("none" before the first)
\* ---- the fence engine (struct mgpu_fence_context)
VARIABLES
    cells,           \* the words of the fence page, by byte offset
    fence_value_reg, \* MGPU_REG_FENCE_VALUE
    fence_irq,       \* MGPU_IRQ_FENCE is in the status the tasklet will see
    fwpc,            \* a caller of mgpu_wait_fence: "idle", "listed" (its
                     \* entry is on ctx->wait_list), "blocked" (asleep on
                     \* ctx->wait_queue), "woken"
    fwarg,           \* its struct mgpu_wait_fence
    wsignaled,       \* its wait_entry.signaled
    fwret,           \* <<r>>: its last call returned r; <<>> before the
                     \* first call and during a call
    seqno,           \* ctx->seqno, as the u32 mgpu_fence_next returns it
    next_ret         \* history: what the calls of mgpu_fence_next returned
\* ---- the health monitor (struct mgpu_health_monitor) and what it watches
VARIABLES
    monitor,         \* heartbeat_misses, consecutive_errors, last_cmd_head,
                     \* last_fence_value, last_activity
    hw,              \* the watched device: now (jiffies, in seconds), head
                     \* and fence (CMD_HEAD, FENCE_VALUE), head_at and
                     \* fence_at (history: when each last changed)
    hlast            \* history: the last check: n (checks so far), kind,
                     \* alive, errs, hung, busy, reset, run (mismatches of
                     \* the heartbeat in a row, this check included)
\* ---- command streams of user space
VARIABLES
    stream,          \* the dwords of a user buffer handed to the validator
    vres,            \* history: <<>>, or <<r>> with what the validator did
                     \* with it: ret, cmds (the kernel copy it leaves), hi
                     \* (the dwords it read), iters (turns of its loop)
    ring_words,      \* history: the dwords that mgpu_ring_write stored, in
                     \* the order of the stores
    val_ret          \* history: what the submissions returned
\* ---- a bounded poll of the hardware
VARIABLES
    poll             \* kind (the function that polls), phase ("idle",
                     \* "loop", "after" the loop, "done"), timeout (its
                     \* local), polls and seen (history: the reads made, and
                     \* whether one of them found what is waited for), ret
\* ---- a buffer object (struct mgpu_bo) and the threads that use it
VARIABLES
    bo,              \* state ("none", "live", "dying": its count reached 0
                     \* and mgpu_bo_free runs, "freed"), refcount, in_idr,
                     \* freer (the thread that runs mgpu_bo_free)
                     \* (its handle is in mgpu_bo_idr), and history: frees
                     \* (how often it was freed), uaf (a count operation ran
                     \* on it after its last reference was gone), destroyed
                     \* (mgpu_bo_destroy returned 0 for it)
    bu               \* by thread: held (references from mgpu_bo_lookup it
                     \* has not put), dpc (its place in mgpu_bo_destroy),
                     \* calls (history: its calls of mgpu_bo_destroy)

schedvars == <<nxt, prv, debug_list, state, priority, dep_count, dependents,
               commands, result, done, signals, overdue, args, spc,
               next_job_id, pending_starts, current_job, busy, sel, selp,
               started, ps_tmp, ipc, irq_tmp, irq_job, irq_err,
               job_lock, queue_lock, panic, fpc>>
\* the positions and registers of the worker and of the interrupt handler
stepvars == <<started, ps_tmp, ipc, irq_tmp, irq_job, irq_err>>
resetvars == <<in_reset, reset_count, reset_pending, rpc, cycles, requests,
               reset_failed, wpc>>
ringvars == <<ring_tail, cmd_head, cmd_tail, doorbells, submitted_cmds,
              owned, clobbered>>
irqvars == <<irq_by, hw_irq, irq_status, tasklet_sched, tpc, th_status,
             th_tmp, bpc, bh_status, owed>>
regvars == <<regs>>
depvars == <<deps>>
histvars == <<qseq>>
prodvars == <<cmd_lock, ppc, ptail, pfence, mem_upto>>
mkvars == <<mring>>
retvars == <<sub_ret>>
fencevars == <<cells, fence_value_reg, fence_irq, fwpc, fwarg, wsignaled, fwret>>
seqvars == <<seqno, next_ret>>
healthvars == <<monitor, hw, hlast>>
valvars == <<stream, vres, ring_words, val_ret>>
pollvars == <<poll>>
bovars == <<bo, bu>>
vars == <<schedvars, resetvars, ringvars, irqvars, regvars, depvars, histvars,
          prodvars, mkvars, retvars, fencevars, seqvars, healthvars, valvars,
          pollvars, bovars>>

\* ------------------------------------------------------- <linux/list.h>
\* The lists of the scheduler as one value L = [n |-> next, p |-> prev].
Lists == [n |-> nxt, p |-> prv]

\* __list_add(new, prev, next): four stores, in the kernel's order.
list_add_raw(L, new, prev, next) ==
    LET L1 == [L EXCEPT !.p[next] = new]
        L2 == [L1 EXCEPT !.n[new] = next]
        L3 == [L2 EXCEPT !.p[new] = prev]
    IN  [L3 EXCEPT !.n[prev] = new]

\* __list_add_valid (CONFIG_DEBUG_LIST): the add is skipped when it fails.
list_add_valid(L, new, prev, next) ==
    /\ L.p[next] = prev
    /\ L.n[prev] = next
    /\ new # prev
    /\ new # next

\* __list_add as built: checked under CONFIG_DEBUG_LIST, raw otherwise.
list_add_between(L, new, prev, next, dbg) ==
    IF dbg /\ ~list_add_valid(L, new, prev, next)
    THEN L
    ELSE list_add_raw(L, new, prev, next)

\* list_add_tail(new, head)
list_add_tail(L, new, head, dbg) == list_add_between(L, new, L.p[head], head, dbg)

\* list_add(new, head)
list_add(L, new, head, dbg) == list_add_between(L, new, head, L.n[head], dbg)

\* __list_del_entry_valid (CONFIG_DEBUG_LIST)
list_del_valid(L, e) ==
    /\ L.n[e] \notin Poison
    /\ L.p[e] \notin Poison
    /\ L.n[L.p[e]] = e
    /\ L.p[L.n[e]] = e

\* list_del / __list_del_entry store through entry->next and entry->prev:
\* without CONFIG_DEBUG_LIST a poisoned entry makes that store fault.
list_del_faults(L, e, dbg) == ~dbg /\ (L.n[e] \in Poison \/ L.p[e] \in Poison)

\* __list_del_entry(entry): unlink, leaving the entry's own pointers.
list_del_entry(L, e, dbg) ==
    IF dbg /\ ~list_del_valid(L, e)
    THEN L
    ELSE LET L1 == [L EXCEPT !.p[L.n[e]] = L.p[e]]
         IN  [L1 EXCEPT !.n[L.p[e]] = L.n[e]]

\* list_del(entry): unlink (skipped when CONFIG_DEBUG_LIST finds the entry
\* invalid) and poison.
list_del(L, e, dbg) ==
    LET L1 == list_del_entry(L, e, dbg)
        L2 == [L1 EXCEPT !.n[e] = LIST_POISON1]
    IN  [L2 EXCEPT !.p[e] = LIST_POISON2]

\* list_move_tail(entry, head)
list_move_tail(L, e, head, dbg) == list_add_tail(list_del_entry(L, e, dbg), e, head, dbg)

\* list_for_each_entry[_safe](pos, head, list): the jobs visited from
\* head->next on, and how the walk ends: "ok" back at head; "fault" on a
\* poisoned pointer (the thread oopses); "wild" on another list's head,
\* where container_of yields no job and the body reads memory that is not a
\* job's: with skip the read compares unequal and the walk goes on, without
\* it the thread is lost there; "loop" on a cycle that does not hold head.
RECURSIVE walk_from(_, _, _, _, _, _)
walk_from(L, cur, head, acc, seen, skip) ==
    IF cur = head THEN [jobs |-> acc, end |-> "ok"]
    ELSE IF cur \in Poison THEN [jobs |-> acc, end |-> "fault"]
    ELSE IF cur \in seen THEN [jobs |-> acc, end |-> "loop"]
    ELSE IF cur \in Heads
         THEN IF skip
              THEN walk_from(L, L.n[cur], head, acc, seen \cup {cur}, skip)
              ELSE [jobs |-> acc, end |-> "wild"]
    ELSE walk_from(L, L.n[cur], head, Append(acc, cur), seen \cup {cur}, skip)

list_walk(L, head, skip) == walk_from(L, L.n[head], head, <<>>, {}, skip)

\* ------------------------------------------------------------------ init
JobStates == {"PENDING", "QUEUED", "RUNNING", "COMPLETED", "ABORTED", "TIMEOUT"}
Terminal == {"COMPLETED", "ABORTED", "TIMEOUT"}

NoArgs == [priority |-> 0, sync |-> FALSE, dep |-> 0]

\* ring->size of the ring mgpu_submit_commands creates, and in dwords
RingSize == MGPU_RING_SIZE_MIN
RingDwords == RingSize \div 4

\* ---- the fence page
PAGE_SIZE == 4096
\* the byte offsets of the fence cells in use, the values fences carry, the
\* timeout_ms of the waits (0: no timeout); an address past the page
FenceOffsets == {0, 4}
FenceValues == {1, 2}
FenceTimeouts == {0, 50}
OutsidePage == PAGE_SIZE
NoWait == [fence_addr |-> 0, fence_value |-> 0, timeout_ms |-> 0]

\* mgpu_fence_signaled on the fence page as it is; fence_addr is counted
\* from ctx->dma_addr
mgpu_fence_signaled(page, fence_addr, fence_value) ==
    IF fence_addr < 0 \/ fence_addr >= PAGE_SIZE THEN TRUE
    ELSE page[fence_addr] >= fence_value

MGPU_RING_SIZE_MAX == 262144
NoRing == [size |-> 0]

\* is_power_of_2 and roundup_pow_of_two of <linux/log2.h>
RECURSIVE is_power_of_2(_)
is_power_of_2(n) ==
    IF n <= 0 THEN FALSE
    ELSE IF n = 1 THEN TRUE
    ELSE n % 2 = 0 /\ is_power_of_2(n \div 2)
RECURSIVE pow2_from(_, _)
pow2_from(p, n) == IF p >= n THEN p ELSE pow2_from(2 * p, n)
roundup_pow_of_two(n) == pow2_from(1, n)

\* u32 a & b
RECURSIVE bit_and(_, _)
bit_and(a, b) ==
    IF a = 0 \/ b = 0 THEN 0
    ELSE (a % 2) * (b % 2) + 2 * bit_and(a \div 2, b \div 2)

\* mgpu_ring_create: ring->size of the ring it returns, 0 when it returns
\* NULL
mgpu_ring_create(size) ==
    IF size < MGPU_RING_SIZE_MIN \/ size > MGPU_RING_SIZE_MAX THEN 0
    ELSE IF ~is_power_of_2(size) THEN roundup_pow_of_two(size)
    ELSE size

\* mgpu_ring_write on a ring of ring_size_dw dwords: the tail after
\* `dwords` rounds of tail = (tail + 1) & (ring_size_dw - 1), the rounds of
\* the loop taken half by half
RECURSIVE ring_write_steps(_, _, _)
ring_write_steps(tail, dwords, ring_size_dw) ==
    IF dwords = 0 THEN tail
    ELSE IF dwords = 1 THEN bit_and(tail + 1, ring_size_dw - 1)
    ELSE LET half == dwords \div 2
             mid  == ring_write_steps(tail, half, ring_size_dw)
         IN  \* mid is never negative: the test has the first half
             \* worked out before the second half starts
             IF mid >= 0
             THEN ring_write_steps(mid, dwords - half, ring_size_dw)
             ELSE mid

\* The paths that write the ring under mdev->cmd_lock:
\* mgpu_submit_commands and mgpu_dma_copy.
Producers == {"submit", "dma"}
\* sizeof(struct mgpu_cmd_dma) / 4
DmaDwords == 5

\* ------------------------------------------------------ device registers
\* The registers mgpu_pm_save_registers reads, in the order it reads them.
RegNames == <<"CONTROL", "IRQ_ENABLE", "CMD_BASE", "CMD_SIZE", "FENCE_ADDR",
              "VERTEX_BASE", "VERTEX_COUNT", "VERTEX_STRIDE", "SHADER_PC">>
Regs == {RegNames[i] : i \in DOMAIN RegNames}

MGPU_CTRL_ENABLE == 1
MGPU_CTRL_PAUSE == 4
\* the mask mgpu_irq_enable writes (no CONFIG_MGPU_DEBUG, no profiling):
\* CMD_COMPLETE | ERROR | FENCE | QUEUE_EMPTY
IrqEnableMask == 1 + 2 + 4 + 8
\* lower_32_bits of the bus addresses dma_alloc_coherent gave the ring and
\* the fence page
RingDmaAddr == 4096
FenceDmaAddr == 8192
\* the vertex buffers, vertex counts and strides of the draws, and the
\* shader slots
VertexBases == {0, 16384}
VertexCounts == {0, 3}
VertexStrides == {0, 16}
ShaderSlots == {0, 1}
DefaultVertexStride == 44
ShaderSlotDwords == 256

\* u32 x | bit and x & ~bit, for a single bit
bit_or(x, bit) == IF (x \div bit) % 2 = 1 THEN x ELSE x + bit
bit_clear(x, bit) == IF (x \div bit) % 2 = 1 THEN x - bit ELSE x

\* What MGPU_CTRL_RESET does to the device: every host-programmed register
\* reads 0 afterwards (mgpu_test_reset_behavior).
RegsAfterHwReset == [r \in Regs |-> 0]

\* The registers after mgpu_probe: mgpu_core_init enables the device and
\* the interrupts, mgpu_ring_create programs the ring, mgpu_fence_init the
\* fence page; nothing has drawn yet.
RegsAfterProbe ==
    [r \in Regs |-> CASE r = "CONTROL" -> MGPU_CTRL_ENABLE
                     [] r = "IRQ_ENABLE" -> IrqEnableMask
                     [] r = "CMD_BASE" -> RingDmaAddr
                     [] r = "CMD_SIZE" -> RingSize
                     [] r = "FENCE_ADDR" -> FenceDmaAddr
                     [] OTHER -> 0]

\* mgpu_pm_save_registers and mgpu_pm_restore_registers: saved_regs[i] is
\* register i of RegNames; the restore writes 2..8, then IRQ_ENABLE, then
\* CONTROL. Only mgpu_pm_suspend and mgpu_pm_resume call them.
mgpu_pm_save_registers(rg) == [i \in DOMAIN RegNames |-> rg[RegNames[i]]]
PmRestoreOrder == <<3, 4, 5, 6, 7, 8, 9, 2, 1>>
RECURSIVE mgpu_pm_restore_from(_, _, _)
mgpu_pm_restore_from(rg, saved, k) ==
    IF k > Len(PmRestoreOrder) THEN rg
    ELSE mgpu_pm_restore_from(
             [rg EXCEPT ![RegNames[PmRestoreOrder[k]]] = saved[PmRestoreOrder[k]]],
             saved, k + 1)
mgpu_pm_restore_registers(rg, saved) == mgpu_pm_restore_from(rg, saved, 1)

\* The registers when mgpu_reset_work is through with a cycle that worked:
\* mgpu_reset_hw resets the device and leaves CONTROL 0 (the old_control it
\* read is dropped), mgpu_core_init writes MGPU_CTRL_ENABLE,
\* mgpu_cmdq_resume programs CMD_BASE and CMD_SIZE from the ring,
\* mgpu_irq_enable writes its mask. The work saves nothing beforehand and
\* writes no other register.
RegsAfterResetWork ==
    [RegsAfterHwReset EXCEPT !["CONTROL"] = MGPU_CTRL_ENABLE,
                             !["CMD_BASE"] = RingDmaAddr,
                             !["CMD_SIZE"] = RingSize,
                             !["IRQ_ENABLE"] = IrqEnableMask]

\* mgpu_health_init: the monitor is kzalloc'ed and last_activity = jiffies
NewMonitor ==
    [heartbeat_misses |-> 0, consecutive_errors |-> 0, last_cmd_head |-> 0,
     last_fence_value |-> 0, last_activity |-> 0]

\* the threads that look a buffer object up and destroy it
BoUsers == {"a", "b"}
\* no buffer object has been created
NoBo ==
    [state |-> "none", refcount |-> 0, in_idr |-> FALSE, freer |-> "none",
     frees |-> 0, uaf |-> FALSE, destroyed |-> FALSE]

\* no poll is under way
NoPoll ==
    [kind |-> "none", phase |-> "idle", timeout |-> 0, polls |-> 0,
     seen |-> FALSE, ret |-> 0]

\* no check of the health monitor has run yet
NoCheck ==
    [n |-> 0, kind |-> "none", alive |-> TRUE, errs |-> FALSE, hung |-> FALSE,
     busy |-> FALSE, reset |-> FALSE, run |-> 0]

\* mgpu_sched_init, mgpu_reset_init, mgpu_cmdq_init, mgpu_fence_init's
\* page and mgpu_health_init have run.
InitDriver ==
    /\ nxt = [x \in Nodes |-> x]
    /\ prv = [x \in Nodes |-> x]
    /\ debug_list \in BOOLEAN
    /\ state = [j \in Jobs |-> "NONE"]
    /\ priority = [j \in Jobs |-> 0]
    /\ dep_count = [j \in Jobs |-> 0]
    /\ dependents = [j \in Jobs |-> <<>>]
    /\ commands = [j \in Jobs |-> FALSE]
    /\ result = [j \in Jobs |-> 0]
    /\ done = [j \in Jobs |-> 0]
    /\ signals = [j \in Jobs |-> 0]
    /\ overdue = [j \in Jobs |-> FALSE]
    /\ args = [j \in Jobs |-> NoArgs]
    /\ spc = [j \in Jobs |-> "none"]
    /\ next_job_id = 1
    /\ pending_starts = 0
    /\ current_job = 0
    /\ busy = FALSE
    /\ sel = 0
    /\ selp = 0
    /\ started = "no"
    /\ ps_tmp = 0
    /\ ipc = "idle"
    /\ irq_tmp = 0
    /\ irq_job = 0
    /\ irq_err = FALSE
    /\ job_lock = "free"
    /\ queue_lock = "free"
    /\ panic = FALSE
    /\ fpc = "run"
    /\ in_reset = 0
    /\ reset_count = 0
    /\ reset_pending = FALSE
    /\ rpc = "idle"
    /\ cycles = 0
    /\ requests = 0
    /\ reset_failed = FALSE
    /\ wpc = [w \in Waiters |-> "none"]
    /\ ring_tail = 0
    /\ cmd_head = 0
    /\ cmd_tail = 0
    /\ doorbells = 0
    /\ submitted_cmds = 0
    /\ owned = 0
    /\ clobbered = FALSE
    /\ irq_by = "none"
    /\ hw_irq = {}
    /\ irq_status = {}
    /\ tasklet_sched = FALSE
    /\ tpc = "idle"
    /\ th_status = {}
    /\ th_tmp = {}
    /\ bpc = "idle"
    /\ bh_status = {}
    /\ owed = {}
    /\ regs = RegsAfterProbe
    /\ deps = [j \in Jobs |-> <<>>]
    /\ qseq = <<>>
    /\ cmd_lock = "free"
    /\ ppc = [pr \in Producers |-> "idle"]
    /\ ptail = [pr \in Producers |-> 0]
    /\ pfence = [pr \in Producers |-> FALSE]
    /\ mem_upto = 0
    /\ mring = NoRing
    /\ sub_ret = "none"
    /\ cells = [a \in FenceOffsets |-> 0]
    /\ fence_value_reg = 0
    /\ fence_irq = FALSE
    /\ fwpc = [w \in Waiters |-> "idle"]
    /\ fwarg = [w \in Waiters |-> NoWait]
    /\ wsignaled = [w \in Waiters |-> FALSE]
    /\ fwret = [w \in Waiters |-> <<>>]
    /\ monitor = NewMonitor
    /\ hw = [now |-> 0, head |-> 0, fence |-> 0, head_at |-> 0, fence_at |-> 0]
    /\ hlast = NoCheck
    /\ vres = <<>>
    /\ ring_words = <<>>
    /\ val_ret = <<>>
    /\ poll = NoPoll
    /\ bo = NoBo
    /\ bu = [u \in BoUsers |-> [held |-> 0, dpc |-> "idle", calls |-> 0]]

\* mgpu_fence_init has run too: atomic_set(&ctx->seqno, 0)
Init ==
    /\ InitDriver
    /\ seqno = 0
    /\ next_ret = <<>>
    /\ stream = <<>>


\* ------------------------------------------------------------ errno values
EIO == -5
ERESTARTSYS == -512
EBUSY == -16
ECANCELED == -125
ETIMEDOUT == -110
EFAULT == -14
EINVAL == -22

\* ------------------------------------------------------------ command ring
\* sizeof(struct mgpu_cmd_fence) / 4
FenceDwords == 3
\* cmd_size / 4 of the jobs the scheduler runs
JobCmdDwords == 1

\* mgpu_ring_space as mgpu_ring_wait_space calls it. The u32 arithmetic does
\* not wrap: head and tail are ring indices, below ring->size / 4.
mgpu_ring_space(head, tail) ==
    IF head <= tail
    THEN RingSize - (tail - head) - 1
    ELSE head - tail - 1

\* the second mgpu_ring_space of the file ("in dwords")
mgpu_ring_space_dwords(head, tail) ==
    IF head <= tail
    THEN RingDwords - (tail - head) - 1
    ELSE head - tail - 1

\* mgpu_ring_wait_space: 0, or -ETIMEDOUT when the device does not free the
\* space within the wait.
mgpu_ring_wait_space(head, tail, needed) ==
    IF mgpu_ring_space(head, tail) < needed THEN ETIMEDOUT ELSE 0

\* mgpu_ring_write: the tail after `dwords` stores, each followed by
\* tail = (tail + 1) & (ring_size_dw - 1).
mgpu_ring_write(tail, dwords) == (tail + dwords) % RingDwords

\* mgpu_submit_commands on the ring as it is: the return value, the new
\* ring->tail, whether the ring was kicked, and the dwords stored.
mgpu_submit_commands(has_cmds, dw, fence, copied) ==
    LET t1 == mgpu_ring_write(ring_tail, dw)
        t2 == mgpu_ring_write(t1, FenceDwords)
    IN  IF ~has_cmds \/ dw = 0
        THEN [ret |-> EINVAL, tail |-> ring_tail, kick |-> FALSE, wrote |-> 0]
        ELSE IF ~copied
        THEN [ret |-> EFAULT, tail |-> ring_tail, kick |-> FALSE, wrote |-> 0]
        ELSE IF mgpu_ring_wait_space(cmd_head, ring_tail, dw) # 0
        THEN [ret |-> ETIMEDOUT, tail |-> ring_tail, kick |-> FALSE, wrote |-> 0]
        ELSE IF ~fence
        THEN [ret |-> 0, tail |-> t1, kick |-> TRUE, wrote |-> dw]
        ELSE IF mgpu_ring_wait_space(cmd_head, t1, FenceDwords) # 0
        THEN [ret |-> ETIMEDOUT, tail |-> t1, kick |-> FALSE, wrote |-> dw]
        ELSE [ret |-> 0, tail |-> t2, kick |-> TRUE, wrote |-> dw + FenceDwords]

\* The ring after a call of mgpu_submit_commands that returned r
\* (mgpu_ring_write, then mgpu_ring_kick).
RingApply(r) ==
    /\ ring_tail' = r.tail
    /\ cmd_tail' = IF r.kick THEN r.tail ELSE cmd_tail
    /\ doorbells' = IF r.kick THEN doorbells + 1 ELSE doorbells
    /\ submitted_cmds' = IF r.kick THEN submitted_cmds + 1 ELSE submitted_cmds
    /\ owned' = IF owned + r.wrote > RingDwords THEN RingDwords ELSE owned + r.wrote
    /\ clobbered' = (clobbered \/ owned + r.wrote > RingDwords)
    /\ UNCHANGED cmd_head

\* The device fetches k dwords: CMD_HEAD advances towards CMD_TAIL.
DeviceConsume(k) ==
    /\ k > 0
    /\ k <= (cmd_tail - cmd_head) % RingDwords
    /\ cmd_head' = (cmd_head + k) % RingDwords
    /\ owned' = owned - k
    /\ UNCHANGED <<ring_tail, cmd_tail, doorbells, submitted_cmds, clobbered>>
    /\ UNCHANGED <<schedvars, resetvars>>
    /\ UNCHANGED irqvars
    /\ UNCHANGED regvars
    /\ UNCHANGED depvars
    /\ UNCHANGED histvars
    /\ UNCHANGED prodvars
    /\ UNCHANGED mkvars
    /\ UNCHANGED retvars
    /\ UNCHANGED fencevars
    /\ UNCHANGED seqvars
    /\ UNCHANGED healthvars
    /\ UNCHANGED valvars
    /\ UNCHANGED pollvars
    /\ UNCHANGED bovars


\* ------------------------------------------------------------ reset engine
\* mgpu_reset_schedule, called n times in a row by one caller.
reset_schedule_times(n) ==
    /\ requests' = requests + n
    /\ IF in_reset # 0 \/ n = 0
       THEN UNCHANGED <<reset_count, reset_pending>>
       ELSE /\ reset_count' = reset_count + n
            /\ reset_pending' = TRUE
    /\ UNCHANGED <<in_reset, rpc, cycles, reset_failed, wpc>>

\* --------------------------------------------------------------- scheduler
\* The part of the scheduler's state that mgpu_job_complete works on, as one
\* value; lost: the thread running the code died or will never return.
Cur == [L |-> Lists, state |-> state, result |-> result, done |-> done,
        signals |-> signals, dep_count |-> dep_count, job_lock |-> job_lock,
        panic |-> panic, lost |-> FALSE]

Commit(S) ==
    /\ nxt' = S.L.n
    /\ prv' = S.L.p
    /\ state' = S.state
    /\ result' = S.result
    /\ done' = S.done
    /\ signals' = S.signals
    /\ dep_count' = S.dep_count
    /\ job_lock' = S.job_lock
    /\ panic' = S.panic

\* mgpu_job_complete(job, result), called in interrupt context (irq) or in
\* process context. The list move is under sched->job_lock: a caller that
\* finds the lock dead never returns, and a move that faults kills the
\* caller with the lock held.
mgpu_job_complete(S, j, res, irq) ==
    LET waiting == dependents[j]
        dec == [k \in Jobs |-> Cardinality({i \in 1 .. Len(waiting) : waiting[i] = k})]
        S1 == [S EXCEPT !.result[j] = res,
                        !.state[j] = IF res = 0 THEN "COMPLETED" ELSE "ABORTED",
                        !.dep_count = [k \in Jobs |-> S.dep_count[k] - dec[k]],
                        !.done[j] = @ + 1,
                        !.signals[j] = @ + 1]
    IN  IF S.job_lock = "dead"
        THEN [S1 EXCEPT !.lost = TRUE, !.panic = @ \/ irq]
        ELSE IF list_del_faults(S.L, j, debug_list)
        THEN [S1 EXCEPT !.lost = TRUE, !.panic = @ \/ irq,
                        !.job_lock = IF irq THEN @ ELSE "dead"]
        ELSE [S1 EXCEPT !.L = list_move_tail(S.L, j, completed_jobs, debug_list)]

\* queue->pending_starts is a u32. Its value v is held as v when
\* v < 2^31 and as v - 2^32 otherwise, so 0xFFFFFFFF is -1; u32_ge is the
\* unsigned comparison a >= b on values held like that.
u32_inc(x) == IF x = 2147483647 THEN -2147483647 - 1 ELSE x + 1
u32_dec(x) == IF x = -2147483647 - 1 THEN 2147483647 ELSE x - 1
u32_ge(a, b) == IF (a < 0) = (b < 0) THEN a >= b ELSE a < 0

\* mgpu_job_is_ready
mgpu_job_is_ready(j) == dep_count[j] = 0 /\ state[j] = "PENDING"

\* job->job_id of the job in slot j (next_job_id starts at 1 and is
\* incremented before it is read).
job_id(j) == j + 1

\* mgpu_sched_submit, first step: mgpu_job_alloc. The call's args ask for
\* priority p, a synchronous wait (s) and name job slot d as the job's one
\* dependency (0: args->num_deps is 0).
JobAlloc(limit, p, s, d) ==
    /\ ~panic
    /\ fpc = "run"
    /\ job_lock = "free"
    /\ next_job_id <= limit
    /\ d < next_job_id
    /\ LET j == next_job_id
           L == list_add_tail(Lists, j, all_jobs, debug_list)
       IN  /\ next_job_id' = next_job_id + 1
           /\ state' = [state EXCEPT ![j] = "PENDING"]
           /\ priority' = [priority EXCEPT ![j] = MGPU_PRIORITY_NORMAL]
           /\ args' = [args EXCEPT ![j] = [priority |-> p, sync |-> s, dep |-> d]]
           /\ spc' = [spc EXCEPT ![j] = "alloc"]
           /\ nxt' = L.n
           /\ prv' = L.p
    /\ UNCHANGED <<debug_list, dep_count, dependents, commands, result, done,
                   signals, overdue, pending_starts, current_job, busy, sel,
                   selp, job_lock, queue_lock, panic, fpc>>
    /\ UNCHANGED <<resetvars, ringvars>>
    /\ UNCHANGED stepvars
    /\ UNCHANGED irqvars
    /\ UNCHANGED regvars
    /\ UNCHANGED depvars
    /\ UNCHANGED histvars
    /\ UNCHANGED prodvars
    /\ UNCHANGED mkvars
    /\ UNCHANGED retvars
    /\ UNCHANGED fencevars
    /\ UNCHANGED seqvars
    /\ UNCHANGED healthvars
    /\ UNCHANGED valvars
    /\ UNCHANGED pollvars
    /\ UNCHANGED bovars

SchedSubmitAlloc(p, s, d) == JobAlloc(MaxJobs, p, s, d)

\* mgpu_sched_submit, second step: the job's fields are filled from args.
SchedSubmitFill(j) ==
    /\ ~panic
    /\ fpc = "run"
    /\ spc[j] = "alloc"
    /\ commands' = [commands EXCEPT ![j] = TRUE]
    /\ priority' = [priority EXCEPT ![j] =
                       IF args[j].priority # 0 THEN args[j].priority
                       ELSE MGPU_PRIORITY_NORMAL]
    /\ spc' = [spc EXCEPT ![j] = "filled"]
    /\ UNCHANGED <<nxt, prv, debug_list, state, dep_count, dependents, result,
                   done, signals, overdue, args, next_job_id, pending_starts,
                   current_job, busy, sel, selp, job_lock, queue_lock, panic, fpc>>
    /\ UNCHANGED <<resetvars, ringvars>>
    /\ UNCHANGED stepvars
    /\ UNCHANGED irqvars
    /\ UNCHANGED regvars
    /\ UNCHANGED depvars
    /\ UNCHANGED histvars
    /\ UNCHANGED prodvars
    /\ UNCHANGED mkvars
    /\ UNCHANGED retvars
    /\ UNCHANGED fencevars
    /\ UNCHANGED seqvars
    /\ UNCHANGED healthvars
    /\ UNCHANGED valvars
    /\ UNCHANGED pollvars
    /\ UNCHANGED bovars

\* mgpu_job_add_dependency(job a, the job args names as a's dependency),
\* called where mgpu_sched_submit has its TODO for the dependencies. The
\* second kzalloc succeeds (alloc_ok), or it fails and the rollback
\* dereferences the NULL it was given: the caller dies with the first half
\* of the edge in place.
JobAddDependency(a, alloc_ok) ==
    /\ ~panic
    /\ fpc = "run"
    /\ spc[a] = "filled"
    /\ args[a].dep # 0
    /\ args[a].dep # a
    /\ deps[a] = <<>>
    /\ deps' = [deps EXCEPT ![a] = Append(@, args[a].dep)]
    /\ dep_count' = [dep_count EXCEPT ![a] = @ + 1]
    /\ IF alloc_ok
       THEN /\ dependents' = [dependents EXCEPT ![args[a].dep] = Append(@, a)]
            /\ UNCHANGED spc
       ELSE /\ spc' = [spc EXCEPT ![a] = "oops"]
            /\ UNCHANGED dependents
    /\ UNCHANGED <<nxt, prv, debug_list, state, priority, commands, result,
                   done, signals, overdue, args, next_job_id, pending_starts,
                   current_job, busy, sel, selp, job_lock, queue_lock, panic, fpc>>
    /\ UNCHANGED <<resetvars, ringvars>>
    /\ UNCHANGED stepvars
    /\ UNCHANGED irqvars
    /\ UNCHANGED regvars
    /\ UNCHANGED histvars
    /\ UNCHANGED prodvars
    /\ UNCHANGED mkvars
    /\ UNCHANGED retvars
    /\ UNCHANGED fencevars
    /\ UNCHANGED seqvars
    /\ UNCHANGED healthvars
    /\ UNCHANGED valvars
    /\ UNCHANGED pollvars
    /\ UNCHANGED bovars

\* mgpu_sched_submit, third step: mgpu_sched_submit_job.
SchedSubmitJob(j) ==
    /\ ~panic
    /\ fpc = "run"
    /\ spc[j] = "filled"
    /\ queue_lock = "free"
    /\ LET L == list_add_tail(Lists, j, pending(priority[j]), debug_list)
       IN  /\ nxt' = L.n
           /\ prv' = L.p
    /\ state' = [state EXCEPT ![j] = "QUEUED"]
    /\ spc' = [spc EXCEPT ![j] = IF args[j].sync THEN "wait" ELSE "ret"]
    /\ UNCHANGED <<debug_list, priority, dep_count, dependents, commands, result,
                   done, signals, overdue, args, next_job_id, pending_starts,
                   current_job, busy, sel, selp, job_lock, queue_lock, panic, fpc>>
    /\ UNCHANGED <<resetvars, ringvars>>
    /\ UNCHANGED stepvars
    /\ UNCHANGED irqvars
    /\ UNCHANGED regvars
    /\ UNCHANGED depvars
    /\ qseq' = Append(qseq, j)
    /\ UNCHANGED prodvars
    /\ UNCHANGED mkvars
    /\ UNCHANGED retvars
    /\ UNCHANGED fencevars
    /\ UNCHANGED seqvars
    /\ UNCHANGED healthvars
    /\ UNCHANGED valvars
    /\ UNCHANGED pollvars
    /\ UNCHANGED bovars

\* mgpu_sched_wait_job: the completion was signalled.
WaitJobDone(j) ==
    /\ ~panic
    /\ fpc # "freed"
    /\ spc[j] = "wait"
    /\ done[j] > 0
    /\ done' = [done EXCEPT ![j] = @ - 1]
    /\ spc' = [spc EXCEPT ![j] = "ret"]
    /\ UNCHANGED <<nxt, prv, debug_list, state, priority, dep_count, dependents,
                   commands, result, signals, overdue, args, next_job_id,
                   pending_starts, current_job, busy, sel, selp, job_lock,
                   queue_lock, panic, fpc>>
    /\ UNCHANGED <<resetvars, ringvars>>
    /\ UNCHANGED stepvars
    /\ UNCHANGED irqvars
    /\ UNCHANGED regvars
    /\ UNCHANGED depvars
    /\ UNCHANGED histvars
    /\ UNCHANGED prodvars
    /\ UNCHANGED mkvars
    /\ UNCHANGED retvars
    /\ UNCHANGED fencevars
    /\ UNCHANGED seqvars
    /\ UNCHANGED healthvars
    /\ UNCHANGED valvars
    /\ UNCHANGED pollvars
    /\ UNCHANGED bovars

\* mgpu_sched_wait_job: wait_for_completion_timeout returned 0.
WaitJobTimeout(j) ==
    /\ ~panic
    /\ fpc # "freed"
    /\ spc[j] = "wait"
    /\ done[j] = 0
    /\ state' = [state EXCEPT ![j] = "TIMEOUT"]
    /\ spc' = [spc EXCEPT ![j] = "ret"]
    /\ UNCHANGED <<nxt, prv, debug_list, priority, dep_count, dependents,
                   commands, result, done, signals, overdue, args, next_job_id,
                   pending_starts, current_job, busy, sel, selp, job_lock,
                   queue_lock, panic, fpc>>
    /\ UNCHANGED <<resetvars, ringvars>>
    /\ UNCHANGED stepvars
    /\ UNCHANGED irqvars
    /\ UNCHANGED regvars
    /\ UNCHANGED depvars
    /\ UNCHANGED histvars
    /\ UNCHANGED prodvars
    /\ UNCHANGED mkvars
    /\ UNCHANGED retvars
    /\ UNCHANGED fencevars
    /\ UNCHANGED seqvars
    /\ UNCHANGED healthvars
    /\ UNCHANGED valvars
    /\ UNCHANGED pollvars
    /\ UNCHANGED bovars

\* mgpu_sched_process_queue, the scan: the first ready job of the highest
\* bucket downwards, or how the walk of a bucket went wrong.
RECURSIVE scan(_, _)
scan(p, skip) ==
    IF p < MGPU_PRIORITY_LOW THEN [job |-> 0, p |-> 0, end |-> "ok"]
    ELSE LET w == list_walk(Lists, pending(p), skip)
             ready == {i \in 1 .. Len(w.jobs) : mgpu_job_is_ready(w.jobs[i])}
         IN  IF ready # {}
             THEN [job |-> w.jobs[CHOOSE i \in ready : \A k \in ready : i <= k],
                   p |-> p, end |-> "ok"]
             ELSE IF w.end # "ok" THEN [job |-> 0, p |-> p, end |-> w.end]
             ELSE scan(p - 1, skip)

\* mgpu_sched_process_queue, up to the list_del of the job it found.
ProcessQueueSelect(skip) ==
    /\ ~panic
    /\ fpc = "run"
    /\ queue_lock = "free"
    /\ sel = 0
    /\ current_job = 0
    /\ ~u32_ge(pending_starts, QUEUE_DEPTH)
    /\ LET f == scan(MGPU_PRIORITY_REALTIME, skip)
       IN  IF f.job # 0 /\ ~list_del_faults(Lists, f.job, debug_list)
           THEN LET L == list_del(Lists, f.job, debug_list)
                IN  /\ nxt' = L.n
                    /\ prv' = L.p
                    /\ sel' = f.job
                    /\ selp' = f.p
                    /\ UNCHANGED queue_lock
           ELSE /\ f.job # 0 \/ f.end # "ok"
                /\ queue_lock' = "dead"
                /\ UNCHANGED <<nxt, prv, sel, selp>>
    /\ UNCHANGED <<debug_list, state, priority, dep_count, dependents, commands,
                   result, done, signals, overdue, args, spc, next_job_id,
                   pending_starts, current_job, busy, job_lock, panic, fpc>>
    /\ UNCHANGED <<resetvars, ringvars>>
    /\ UNCHANGED stepvars
    /\ UNCHANGED irqvars
    /\ UNCHANGED regvars
    /\ UNCHANGED depvars
    /\ UNCHANGED histvars
    /\ UNCHANGED prodvars
    /\ UNCHANGED mkvars
    /\ UNCHANGED retvars
    /\ UNCHANGED fencevars
    /\ UNCHANGED seqvars
    /\ UNCHANGED healthvars
    /\ UNCHANGED valvars
    /\ UNCHANGED pollvars
    /\ UNCHANGED bovars

\* mgpu_sched_process_queue, from mgpu_queue_submit_job on: the queue is
\* found full and the job is put back; or the job is marked running and
\* made the queue's current job. queue->lock is not held from the list_del
\* on, and the hand-over that follows waits for ring space, so the mark is
\* a step of its own.
ProcessQueueMark ==
    /\ ~panic
    /\ fpc = "run"
    /\ sel # 0
    /\ started = "no"
    /\ LET j == sel
           L == list_add(Lists, j, pending(selp), debug_list)
       IN  IF u32_ge(pending_starts, QUEUE_DEPTH)
           THEN /\ UNCHANGED <<state, overdue, current_job, started>>
                /\ sel' = 0
                /\ IF queue_lock = "free"
                   THEN nxt' = L.n /\ prv' = L.p
                   ELSE UNCHANGED <<nxt, prv>>
           ELSE /\ state' = [state EXCEPT ![j] = "RUNNING"]
                /\ overdue' = [overdue EXCEPT ![j] = FALSE]
                /\ current_job' = j
                /\ started' = "marked"
                /\ UNCHANGED <<nxt, prv, sel>>
    /\ UNCHANGED <<debug_list, priority, dep_count, dependents, commands, result,
                   done, signals, args, spc, next_job_id, pending_starts, busy,
                   selp, job_lock, queue_lock, panic, fpc>>
    /\ UNCHANGED <<ps_tmp, ipc, irq_tmp, irq_job, irq_err>>
    /\ UNCHANGED <<resetvars, ringvars>>
    /\ UNCHANGED irqvars
    /\ UNCHANGED regvars
    /\ UNCHANGED depvars
    /\ UNCHANGED histvars
    /\ UNCHANGED prodvars
    /\ UNCHANGED mkvars
    /\ UNCHANGED retvars
    /\ UNCHANGED fencevars
    /\ UNCHANGED seqvars
    /\ UNCHANGED healthvars
    /\ UNCHANGED valvars
    /\ UNCHANGED pollvars
    /\ UNCHANGED bovars

\* mgpu_queue_submit_job, the hand-over: the job's commands go to the ring,
\* which is kicked; or mgpu_submit_commands fails, the job is marked aborted,
\* current_job is cleared and mgpu_sched_process_queue puts the job back at
\* the head of the bucket it was taken from.
ProcessQueueStart(copied) ==
    /\ ~panic
    /\ fpc = "run"
    /\ sel # 0
    /\ started = "marked"
    /\ LET j == sel
           r == mgpu_submit_commands(commands[j], JobCmdDwords, FALSE, copied)
           L == list_add(Lists, j, pending(selp), debug_list)
       IN  IF r.ret = 0
           THEN /\ RingApply(r)
                /\ started' = "kicked"
                /\ UNCHANGED <<nxt, prv, sel, state, current_job>>
           ELSE /\ state' = [state EXCEPT ![j] = "ABORTED"]
                /\ current_job' = 0
                /\ RingApply(r)
                /\ sel' = 0
                /\ started' = "no"
                /\ IF queue_lock = "free"
                   THEN nxt' = L.n /\ prv' = L.p
                   ELSE UNCHANGED <<nxt, prv>>
    /\ UNCHANGED <<debug_list, priority, dep_count, dependents, commands, result,
                   done, signals, overdue, args, spc, next_job_id, pending_starts,
                   busy, selp, job_lock, queue_lock, panic, fpc>>
    /\ UNCHANGED <<ps_tmp, ipc, irq_tmp, irq_job, irq_err>>
    /\ UNCHANGED resetvars
    /\ UNCHANGED irqvars
    /\ UNCHANGED regvars
    /\ UNCHANGED depvars
    /\ UNCHANGED histvars
    /\ UNCHANGED prodvars
    /\ UNCHANGED mkvars
    /\ UNCHANGED retvars
    /\ UNCHANGED fencevars
    /\ UNCHANGED seqvars
    /\ UNCHANGED healthvars
    /\ UNCHANGED valvars
    /\ UNCHANGED pollvars
    /\ UNCHANGED bovars

\* mgpu_queue_submit_job, queue->pending_starts++: the load. The counter is
\* a plain u32 that the worker and the interrupt handler both update with
\* no lock in common, so the load and the store are steps of their own.
ProcessQueueCountLoad ==
    /\ ~panic
    /\ fpc = "run"
    /\ started = "kicked"
    /\ ps_tmp' = pending_starts
    /\ started' = "loaded"
    /\ UNCHANGED <<nxt, prv, debug_list, state, priority, dep_count, dependents,
                   commands, result, done, signals, overdue, args, spc,
                   next_job_id, pending_starts, current_job, busy, sel, selp,
                   job_lock, queue_lock, panic, fpc>>
    /\ UNCHANGED <<ipc, irq_tmp, irq_job, irq_err>>
    /\ UNCHANGED <<resetvars, ringvars>>
    /\ UNCHANGED irqvars
    /\ UNCHANGED regvars
    /\ UNCHANGED depvars
    /\ UNCHANGED histvars
    /\ UNCHANGED prodvars
    /\ UNCHANGED mkvars
    /\ UNCHANGED retvars
    /\ UNCHANGED fencevars
    /\ UNCHANGED seqvars
    /\ UNCHANGED healthvars
    /\ UNCHANGED valvars
    /\ UNCHANGED pollvars
    /\ UNCHANGED bovars

\* mgpu_queue_submit_job, queue->pending_starts++: the store, and the
\* return to mgpu_sched_process_queue.
ProcessQueueCountStore ==
    /\ ~panic
    /\ fpc = "run"
    /\ started = "loaded"
    /\ pending_starts' = u32_inc(ps_tmp)
    /\ ps_tmp' = 0
    /\ started' = "no"
    /\ sel' = 0
    /\ UNCHANGED <<nxt, prv, debug_list, state, priority, dep_count, dependents,
                   commands, result, done, signals, overdue, args, spc,
                   next_job_id, current_job, busy, selp, job_lock, queue_lock,
                   panic, fpc>>
    /\ UNCHANGED <<ipc, irq_tmp, irq_job, irq_err>>
    /\ UNCHANGED <<resetvars, ringvars>>
    /\ UNCHANGED irqvars
    /\ UNCHANGED regvars
    /\ UNCHANGED depvars
    /\ UNCHANGED histvars
    /\ UNCHANGED prodvars
    /\ UNCHANGED mkvars
    /\ UNCHANGED retvars
    /\ UNCHANGED fencevars
    /\ UNCHANGED seqvars
    /\ UNCHANGED healthvars
    /\ UNCHANGED valvars
    /\ UNCHANGED pollvars
    /\ UNCHANGED bovars

\* mgpu_queue_irq_handler, with the STATUS register reading busy / error,
\* up to the load of queue->pending_starts--.
QueueIrqHandler(hw_busy, hw_error) ==
    /\ ~panic
    /\ fpc = "run"
    /\ ipc = "idle"
    /\ busy' = hw_busy
    /\ IF ~hw_busy /\ current_job # 0
       THEN /\ ipc' = "dec"
            /\ irq_job' = current_job
            /\ irq_err' = hw_error
            /\ irq_tmp' = pending_starts
       ELSE /\ busy # hw_busy
            /\ UNCHANGED <<ipc, irq_job, irq_err, irq_tmp>>
    /\ UNCHANGED <<nxt, prv, debug_list, state, priority, dep_count, dependents,
                   commands, result, done, signals, overdue, args, spc,
                   next_job_id, pending_starts, current_job, sel, selp,
                   job_lock, queue_lock, panic, fpc>>
    /\ UNCHANGED <<started, ps_tmp>>
    /\ UNCHANGED <<resetvars, ringvars>>
    /\ UNCHANGED irqvars
    /\ UNCHANGED regvars
    /\ UNCHANGED depvars
    /\ UNCHANGED histvars
    /\ UNCHANGED prodvars
    /\ UNCHANGED mkvars
    /\ UNCHANGED retvars
    /\ UNCHANGED fencevars
    /\ UNCHANGED seqvars
    /\ UNCHANGED healthvars
    /\ UNCHANGED valvars
    /\ UNCHANGED pollvars
    /\ UNCHANGED bovars

\* mgpu_queue_irq_handler, the rest: the store of queue->pending_starts--,
\* current_job = NULL and mgpu_job_complete.
QueueIrqComplete ==
    /\ ~panic
    /\ fpc = "run"
    /\ ipc = "dec"
    /\ pending_starts' = u32_dec(irq_tmp)
    /\ current_job' = 0
    /\ Commit(mgpu_job_complete(Cur, irq_job, IF irq_err THEN EIO ELSE 0, TRUE))
    /\ ipc' = "idle"
    /\ irq_job' = 0
    /\ irq_err' = FALSE
    /\ irq_tmp' = 0
    /\ UNCHANGED <<debug_list, priority, dependents, commands, overdue, args,
                   spc, next_job_id, busy, sel, selp, queue_lock, fpc>>
    /\ UNCHANGED <<started, ps_tmp>>
    /\ UNCHANGED <<resetvars, ringvars>>
    /\ UNCHANGED irqvars
    /\ UNCHANGED regvars
    /\ UNCHANGED depvars
    /\ UNCHANGED histvars
    /\ UNCHANGED prodvars
    /\ UNCHANGED mkvars
    /\ UNCHANGED retvars
    /\ UNCHANGED fencevars
    /\ UNCHANGED seqvars
    /\ UNCHANGED healthvars
    /\ UNCHANGED valvars
    /\ UNCHANGED pollvars
    /\ UNCHANGED bovars

\* mgpu_sched_cancel_job(sched, id)
SchedCancelJob(id, skip) ==
    /\ ~panic
    /\ fpc = "run"
    /\ job_lock = "free"
    /\ LET w == list_walk(Lists, all_jobs, skip)
           found == \E i \in 1 .. Len(w.jobs) : job_id(w.jobs[i]) = id
           j == id - 1
           S1 == [Cur EXCEPT !.L = list_del(Lists, j, debug_list),
                             !.state[j] = "ABORTED"]
       IN  IF found
           THEN /\ state[j] \in {"PENDING", "QUEUED"}
                /\ IF list_del_faults(Lists, j, debug_list)
                   THEN Commit([Cur EXCEPT !.job_lock = "dead"])
                   ELSE Commit(mgpu_job_complete(S1, j, ECANCELED, FALSE))
           ELSE /\ w.end # "ok"
                /\ Commit([Cur EXCEPT !.job_lock = "dead"])
    /\ UNCHANGED <<debug_list, priority, dependents, commands, overdue, args,
                   spc, next_job_id, pending_starts, current_job, busy, sel,
                   selp, queue_lock, fpc>>
    /\ UNCHANGED <<resetvars, ringvars>>
    /\ UNCHANGED stepvars
    /\ UNCHANGED irqvars
    /\ UNCHANGED regvars
    /\ UNCHANGED depvars
    /\ UNCHANGED histvars
    /\ UNCHANGED prodvars
    /\ UNCHANGED mkvars
    /\ UNCHANGED retvars
    /\ UNCHANGED fencevars
    /\ UNCHANGED seqvars
    /\ UNCHANGED healthvars
    /\ UNCHANGED valvars
    /\ UNCHANGED pollvars
    /\ UNCHANGED bovars

\* A running job's runtime passes its timeout_ms.
Tick(j) ==
    /\ ~panic
    /\ fpc = "run"
    /\ state[j] = "RUNNING"
    /\ ~overdue[j]
    /\ overdue' = [overdue EXCEPT ![j] = TRUE]
    /\ UNCHANGED <<nxt, prv, debug_list, state, priority, dep_count, dependents,
                   commands, result, done, signals, args, spc, next_job_id,
                   pending_starts, current_job, busy, sel, selp, job_lock,
                   queue_lock, panic, fpc>>
    /\ UNCHANGED <<resetvars, ringvars>>
    /\ UNCHANGED stepvars
    /\ UNCHANGED irqvars
    /\ UNCHANGED regvars
    /\ UNCHANGED depvars
    /\ UNCHANGED histvars
    /\ UNCHANGED prodvars
    /\ UNCHANGED mkvars
    /\ UNCHANGED retvars
    /\ UNCHANGED fencevars
    /\ UNCHANGED seqvars
    /\ UNCHANGED healthvars
    /\ UNCHANGED valvars
    /\ UNCHANGED pollvars
    /\ UNCHANGED bovars

\* mgpu_sched_timeout_work
SchedTimeoutWork(skip) ==
    /\ ~panic
    /\ fpc = "run"
    /\ job_lock = "free"
    /\ LET w == list_walk(Lists, all_jobs, skip)
           late == {j \in Jobs : /\ \E i \in 1 .. Len(w.jobs) : w.jobs[i] = j
                                 /\ state[j] = "RUNNING"
                                 /\ overdue[j]}
       IN  /\ late # {} \/ w.end # "ok"
           /\ state' = [j \in Jobs |-> IF j \in late THEN "TIMEOUT" ELSE state[j]]
           /\ reset_schedule_times(Cardinality(late))
           /\ job_lock' = IF w.end = "ok" THEN job_lock ELSE "dead"
    /\ UNCHANGED <<nxt, prv, debug_list, priority, dep_count, dependents,
                   commands, result, done, signals, overdue, args, spc,
                   next_job_id, pending_starts, current_job, busy, sel, selp,
                   queue_lock, panic, fpc>>
    /\ UNCHANGED ringvars
    /\ UNCHANGED stepvars
    /\ UNCHANGED irqvars
    /\ UNCHANGED regvars
    /\ UNCHANGED depvars
    /\ UNCHANGED histvars
    /\ UNCHANGED prodvars
    /\ UNCHANGED mkvars
    /\ UNCHANGED retvars
    /\ UNCHANGED fencevars
    /\ UNCHANGED seqvars
    /\ UNCHANGED healthvars
    /\ UNCHANGED valvars
    /\ UNCHANGED pollvars
    /\ UNCHANGED bovars

\* mgpu_queue_destroy, the walk of one bucket (list_for_each_entry_safe:
\* pos is the entry worked on, n the entry fetched before the body ran).
RECURSIVE destroy_walk(_, _, _, _, _)
destroy_walk(S, pos, n, head, seen) ==
    IF S.lost \/ pos = head THEN S
    ELSE IF pos \in Poison \/ pos \in Heads \/ pos \in seen
    THEN [S EXCEPT !.lost = TRUE]
    ELSE IF list_del_faults(S.L, pos, debug_list)
    THEN [S EXCEPT !.lost = TRUE]
    ELSE LET S1 == mgpu_job_complete([S EXCEPT !.L = list_del(S.L, pos, debug_list)],
                                     pos, ECANCELED, FALSE)
         IN  destroy_walk(S1, n, IF n \in Nodes THEN S1.L.n[n] ELSE n,
                          head, seen \cup {pos})

\* mgpu_queue_destroy: the buckets from i upwards.
RECURSIVE mgpu_queue_destroy(_, _)
mgpu_queue_destroy(S, i) ==
    IF i = MGPU_NUM_PRIORITIES THEN S
    ELSE LET first == S.L.n[pending(i)]
         IN  mgpu_queue_destroy(
                 destroy_walk(S, first, S.L.n[first], pending(i), {}), i + 1)

\* mgpu_sched_fini up to the end of mgpu_queue_destroy: the worker and the
\* sweep are stopped, every job in a bucket is cancelled.
SchedFini ==
    /\ ~panic
    /\ fpc = "run"
    /\ sel = 0
    /\ LET S == mgpu_queue_destroy(Cur, 0)
       IN  /\ Commit(S)
           /\ fpc' = IF S.lost THEN "hung" ELSE "destroyed"
    /\ UNCHANGED <<debug_list, priority, dependents, commands, overdue, args,
                   spc, next_job_id, pending_starts, current_job, busy, sel,
                   selp, queue_lock>>
    /\ UNCHANGED <<resetvars, ringvars>>
    /\ UNCHANGED stepvars
    /\ UNCHANGED irqvars
    /\ UNCHANGED regvars
    /\ UNCHANGED depvars
    /\ UNCHANGED histvars
    /\ UNCHANGED prodvars
    /\ UNCHANGED mkvars
    /\ UNCHANGED retvars
    /\ UNCHANGED fencevars
    /\ UNCHANGED seqvars
    /\ UNCHANGED healthvars
    /\ UNCHANGED valvars
    /\ UNCHANGED pollvars
    /\ UNCHANGED bovars

\* mgpu_sched_fini, the rest: every job is freed, then the scheduler.
SchedFiniFree ==
    /\ ~panic
    /\ fpc = "destroyed"
    /\ fpc' = "freed"
    /\ UNCHANGED <<nxt, prv, debug_list, state, priority, dep_count, dependents,
                   commands, result, done, signals, overdue, args, spc,
                   next_job_id, pending_starts, current_job, busy, sel, selp,
                   job_lock, queue_lock, panic>>
    /\ UNCHANGED <<resetvars, ringvars>>
    /\ UNCHANGED stepvars
    /\ UNCHANGED irqvars
    /\ UNCHANGED regvars
    /\ UNCHANGED depvars
    /\ UNCHANGED histvars
    /\ UNCHANGED prodvars
    /\ UNCHANGED mkvars
    /\ UNCHANGED retvars
    /\ UNCHANGED fencevars
    /\ UNCHANGED seqvars
    /\ UNCHANGED healthvars
    /\ UNCHANGED valvars
    /\ UNCHANGED pollvars
    /\ UNCHANGED bovars

\* ------------------------------------------------------------ reset engine
\* mgpu_reset_schedule called by something other than the sweep
\* (mgpu_core_handle_error, the health monitor, debugfs).
ResetSchedule ==
    /\ requests < MaxResets
    /\ reset_schedule_times(1)
    /\ UNCHANGED <<schedvars, ringvars>>
    /\ UNCHANGED irqvars
    /\ UNCHANGED regvars
    /\ UNCHANGED depvars
    /\ UNCHANGED histvars
    /\ UNCHANGED prodvars
    /\ UNCHANGED mkvars
    /\ UNCHANGED retvars
    /\ UNCHANGED fencevars
    /\ UNCHANGED seqvars
    /\ UNCHANGED healthvars
    /\ UNCHANGED valvars
    /\ UNCHANGED pollvars
    /\ UNCHANGED bovars

\* The workqueue takes mdev->reset_work off its queue and enters
\* mgpu_reset_work; the item can be queued again from here on.
ResetWorkBegin ==
    /\ reset_pending
    /\ rpc = "idle"
    /\ reset_pending' = FALSE
    /\ rpc' = "started"
    /\ cycles' = cycles + 1
    /\ UNCHANGED <<in_reset, reset_count, requests, reset_failed, wpc>>
    /\ UNCHANGED <<schedvars, ringvars>>
    /\ UNCHANGED irqvars
    /\ UNCHANGED regvars
    /\ UNCHANGED depvars
    /\ UNCHANGED histvars
    /\ UNCHANGED prodvars
    /\ UNCHANGED mkvars
    /\ UNCHANGED retvars
    /\ UNCHANGED fencevars
    /\ UNCHANGED seqvars
    /\ UNCHANGED healthvars
    /\ UNCHANGED valvars
    /\ UNCHANGED pollvars
    /\ UNCHANGED bovars

\* mgpu_reset_work: atomic_set(&mdev->in_reset, 1), then mgpu_cmdq_stop,
\* which the driver calls and defines nowhere: it is taken to return, and
\* no code of the submission path reads anything it could have set.
ResetWorkSetFlag ==
    /\ rpc = "started"
    /\ in_reset' = 1
    /\ rpc' = "in_reset"
    /\ UNCHANGED <<reset_count, reset_pending, cycles, requests, reset_failed, wpc>>
    /\ UNCHANGED <<schedvars, ringvars>>
    /\ UNCHANGED irqvars
    /\ UNCHANGED regvars
    /\ UNCHANGED depvars
    /\ UNCHANGED histvars
    /\ UNCHANGED prodvars
    /\ UNCHANGED mkvars
    /\ UNCHANGED retvars
    /\ UNCHANGED fencevars
    /\ UNCHANGED seqvars
    /\ UNCHANGED healthvars
    /\ UNCHANGED valvars
    /\ UNCHANGED pollvars
    /\ UNCHANGED bovars

\* wake_up_all(&mdev->reset_wait): every sleeper becomes runnable.
wake_up_all(w) == [x \in DOMAIN w |-> IF w[x] = "blocked" THEN "woken" ELSE w[x]]

\* mgpu_reset_work with `return` in the place of `goto out`: a failed cycle
\* leaves in_reset set and wakes nobody.
ResetWorkFinishReturn(hw_ok) ==
    /\ rpc = "in_reset"
    /\ rpc' = "idle"
    /\ reset_failed' = (reset_failed \/ ~hw_ok)
    /\ IF hw_ok
       THEN /\ in_reset' = 0
            /\ wpc' = wake_up_all(wpc)
            /\ cmd_head' = 0
            /\ cmd_tail' = ring_tail
            /\ owned' = ring_tail
            /\ UNCHANGED <<ring_tail, doorbells, submitted_cmds, clobbered>>
       ELSE UNCHANGED <<in_reset, wpc, ringvars>>
    /\ regs' = IF hw_ok THEN RegsAfterResetWork ELSE RegsAfterHwReset
    /\ UNCHANGED <<reset_count, reset_pending, cycles, requests>>
    /\ UNCHANGED schedvars
    /\ UNCHANGED irqvars
    /\ UNCHANGED depvars
    /\ UNCHANGED histvars
    /\ UNCHANGED prodvars
    /\ UNCHANGED mkvars
    /\ UNCHANGED retvars
    /\ UNCHANGED fencevars
    /\ UNCHANGED seqvars
    /\ UNCHANGED healthvars
    /\ UNCHANGED valvars
    /\ UNCHANGED pollvars
    /\ UNCHANGED bovars

\* mgpu_reset_work, the rest: the hardware reset and the re-initialisation
\* succeed (hw_ok) and mgpu_cmdq_resume rewrites the ring registers, or one
\* of them fails and the work jumps to out with the device reset and
\* CONTROL 0; in_reset is cleared and the
\* sleepers of mdev->reset_wait are woken on both paths. Every wait on the
\* way is bounded (mgpu_core_wait_idle by its timeout, mgpu_reset_hw by
\* 1000 polls), so the step is always taken once the flag is set.
ResetWorkFinish(hw_ok) ==
    /\ rpc = "in_reset"
    /\ in_reset' = 0
    /\ rpc' = "idle"
    /\ reset_failed' = (reset_failed \/ ~hw_ok)
    /\ wpc' = wake_up_all(wpc)
    /\ IF hw_ok
       THEN /\ cmd_head' = 0
            /\ cmd_tail' = ring_tail
            /\ owned' = ring_tail
            /\ UNCHANGED <<ring_tail, doorbells, submitted_cmds, clobbered>>
       ELSE UNCHANGED ringvars
    /\ regs' = IF hw_ok THEN RegsAfterResetWork ELSE RegsAfterHwReset
    /\ UNCHANGED <<reset_count, reset_pending, cycles, requests>>
    /\ UNCHANGED schedvars
    /\ UNCHANGED irqvars
    /\ UNCHANGED depvars
    /\ UNCHANGED histvars
    /\ UNCHANGED prodvars
    /\ UNCHANGED mkvars
    /\ UNCHANGED retvars
    /\ UNCHANGED fencevars
    /\ UNCHANGED seqvars
    /\ UNCHANGED healthvars
    /\ UNCHANGED valvars
    /\ UNCHANGED pollvars
    /\ UNCHANGED bovars

\* mgpu_reset_wait, entered: wait_event_interruptible_timeout returns at
\* once when in_reset is clear and sleeps on mdev->reset_wait otherwise.
ResetWaitEnter(w) ==
    /\ wpc[w] \in {"none", "ret0", "timedout"}
    /\ wpc' = [wpc EXCEPT ![w] = IF in_reset = 0 THEN "ret0" ELSE "blocked"]
    /\ UNCHANGED <<in_reset, reset_count, reset_pending, rpc, cycles, requests,
                   reset_failed>>
    /\ UNCHANGED <<schedvars, ringvars>>
    /\ UNCHANGED irqvars
    /\ UNCHANGED regvars
    /\ UNCHANGED depvars
    /\ UNCHANGED histvars
    /\ UNCHANGED prodvars
    /\ UNCHANGED mkvars
    /\ UNCHANGED retvars
    /\ UNCHANGED fencevars
    /\ UNCHANGED seqvars
    /\ UNCHANGED healthvars
    /\ UNCHANGED valvars
    /\ UNCHANGED pollvars
    /\ UNCHANGED bovars

\* mgpu_reset_wait, woken: the condition is read again; the caller returns
\* 0 when in_reset is clear and goes back to sleep otherwise.
ResetWaitWoken(w) ==
    /\ wpc[w] = "woken"
    /\ wpc' = [wpc EXCEPT ![w] = IF in_reset = 0 THEN "ret0" ELSE "blocked"]
    /\ UNCHANGED <<in_reset, reset_count, reset_pending, rpc, cycles, requests,
                   reset_failed>>
    /\ UNCHANGED <<schedvars, ringvars>>
    /\ UNCHANGED irqvars
    /\ UNCHANGED regvars
    /\ UNCHANGED depvars
    /\ UNCHANGED histvars
    /\ UNCHANGED prodvars
    /\ UNCHANGED mkvars
    /\ UNCHANGED retvars
    /\ UNCHANGED fencevars
    /\ UNCHANGED seqvars
    /\ UNCHANGED healthvars
    /\ UNCHANGED valvars
    /\ UNCHANGED pollvars
    /\ UNCHANGED bovars

\* mgpu_reset_wait, the timeout runs out while in_reset is still set:
\* wait_event_interruptible_timeout returns 0 and the caller -ETIMEDOUT.
ResetWaitTimeout(w) ==
    /\ wpc[w] \in {"blocked", "woken"}
    /\ in_reset # 0
    /\ wpc' = [wpc EXCEPT ![w] = "timedout"]
    /\ UNCHANGED <<in_reset, reset_count, reset_pending, rpc, cycles, requests,
                   reset_failed>>
    /\ UNCHANGED <<schedvars, ringvars>>
    /\ UNCHANGED irqvars
    /\ UNCHANGED regvars
    /\ UNCHANGED depvars
    /\ UNCHANGED histvars
    /\ UNCHANGED prodvars
    /\ UNCHANGED mkvars
    /\ UNCHANGED retvars
    /\ UNCHANGED fencevars
    /\ UNCHANGED seqvars
    /\ UNCHANGED healthvars
    /\ UNCHANGED valvars
    /\ UNCHANGED pollvars
    /\ UNCHANGED bovars

\* --------------------------------------------------------------- interrupts
\* request_irq and tasklet_init: mgpu_irq_init or mgpu_probe registers the
\* handler and the tasklet of its file.
RequestIrq(f) ==
    /\ irq_by = "none"
    /\ irq_by' = f
    /\ UNCHANGED <<hw_irq, irq_status, tasklet_sched, tpc, th_status, th_tmp,
                   bpc, bh_status, owed>>
    /\ UNCHANGED <<schedvars, resetvars, ringvars>>
    /\ UNCHANGED regvars
    /\ UNCHANGED depvars
    /\ UNCHANGED histvars
    /\ UNCHANGED prodvars
    /\ UNCHANGED mkvars
    /\ UNCHANGED retvars
    /\ UNCHANGED fencevars
    /\ UNCHANGED seqvars
    /\ UNCHANGED healthvars
    /\ UNCHANGED valvars
    /\ UNCHANGED pollvars
    /\ UNCHANGED bovars

\* The device raises an interrupt: a bit of IRQ_STATUS is set.
DeviceRaiseIrq(b) ==
    /\ b \notin hw_irq
    /\ hw_irq' = hw_irq \cup {b}
    /\ UNCHANGED <<irq_by, irq_status, tasklet_sched, tpc, th_status, th_tmp,
                   bpc, bh_status, owed>>
    /\ UNCHANGED <<schedvars, resetvars, ringvars>>
    /\ UNCHANGED regvars
    /\ UNCHANGED depvars
    /\ UNCHANGED histvars
    /\ UNCHANGED prodvars
    /\ UNCHANGED mkvars
    /\ UNCHANGED retvars
    /\ UNCHANGED fencevars
    /\ UNCHANGED seqvars
    /\ UNCHANGED healthvars
    /\ UNCHANGED valvars
    /\ UNCHANGED pollvars
    /\ UNCHANGED bovars

\* mgpu_irq_handler, entered with a bit pending: IRQ_STATUS is read into
\* status and status is written to IRQ_ACK, which clears those bits.
IrqHandlerAck ==
    /\ irq_by # "none"
    /\ tpc = "idle"
    /\ hw_irq # {}
    /\ th_status' = hw_irq
    /\ hw_irq' = {}
    /\ owed' = owed \cup hw_irq
    /\ tpc' = "acked"
    /\ UNCHANGED <<irq_by, irq_status, tasklet_sched, th_tmp, bpc, bh_status>>
    /\ UNCHANGED <<schedvars, resetvars, ringvars>>
    /\ UNCHANGED regvars
    /\ UNCHANGED depvars
    /\ UNCHANGED histvars
    /\ UNCHANGED prodvars
    /\ UNCHANGED mkvars
    /\ UNCHANGED retvars
    /\ UNCHANGED fencevars
    /\ UNCHANGED seqvars
    /\ UNCHANGED healthvars
    /\ UNCHANGED valvars
    /\ UNCHANGED pollvars
    /\ UNCHANGED bovars

\* mgpu_irq_init's handler: `mdev->irq_status |= status`, the load. The handler holds no
\* lock, so the tasklet on another CPU runs between the load and the store.
IrqHandlerLoad ==
    /\ irq_by = "mgpu_irq_init"
    /\ tpc = "acked"
    /\ th_tmp' = irq_status
    /\ tpc' = "loaded"
    /\ UNCHANGED <<irq_by, hw_irq, irq_status, tasklet_sched, th_status, bpc,
                   bh_status, owed>>
    /\ UNCHANGED <<schedvars, resetvars, ringvars>>
    /\ UNCHANGED regvars
    /\ UNCHANGED depvars
    /\ UNCHANGED histvars
    /\ UNCHANGED prodvars
    /\ UNCHANGED mkvars
    /\ UNCHANGED retvars
    /\ UNCHANGED fencevars
    /\ UNCHANGED seqvars
    /\ UNCHANGED healthvars
    /\ UNCHANGED valvars
    /\ UNCHANGED pollvars
    /\ UNCHANGED bovars

\* mgpu_irq_handler, the store to mdev->irq_status and tasklet_schedule:
\* mgpu_irq_init's handler stores the loaded value or-ed with status,
\* mgpu_probe's stores status.
IrqHandlerStore ==
    /\ tpc = IF irq_by = "mgpu_irq_init" THEN "loaded" ELSE "acked"
    /\ irq_status' = IF irq_by = "mgpu_irq_init" THEN th_tmp \cup th_status
                                                ELSE th_status
    /\ tasklet_sched' = TRUE
    /\ tpc' = "idle"
    /\ th_status' = {}
    /\ th_tmp' = {}
    /\ UNCHANGED <<irq_by, hw_irq, bpc, bh_status, owed>>
    /\ UNCHANGED <<schedvars, resetvars, ringvars>>
    /\ UNCHANGED regvars
    /\ UNCHANGED depvars
    /\ UNCHANGED histvars
    /\ UNCHANGED prodvars
    /\ UNCHANGED mkvars
    /\ UNCHANGED retvars
    /\ UNCHANGED fencevars
    /\ UNCHANGED seqvars
    /\ UNCHANGED healthvars
    /\ UNCHANGED valvars
    /\ UNCHANGED pollvars
    /\ UNCHANGED bovars

\* mgpu_irq_tasklet_func, entered by the softirq (which clears the
\* scheduled bit first): status = mdev->irq_status. mgpu_irq_init's
\* tasklet reads it under irq_lock, which the top half never takes, and
\* clears it next; mgpu_probe's goes on to dispatch.
IrqTaskletLoad ==
    /\ tasklet_sched
    /\ bpc = "idle"
    /\ tasklet_sched' = FALSE
    /\ bh_status' = irq_status
    /\ bpc' = IF irq_by = "mgpu_irq_init" THEN "taken" ELSE "dispatch"
    /\ UNCHANGED <<irq_by, hw_irq, irq_status, tpc, th_status, th_tmp, owed>>
    /\ UNCHANGED <<schedvars, resetvars, ringvars>>
    /\ UNCHANGED regvars
    /\ UNCHANGED depvars
    /\ UNCHANGED histvars
    /\ UNCHANGED prodvars
    /\ UNCHANGED mkvars
    /\ UNCHANGED retvars
    /\ UNCHANGED fencevars
    /\ UNCHANGED seqvars
    /\ UNCHANGED healthvars
    /\ UNCHANGED valvars
    /\ UNCHANGED pollvars
    /\ UNCHANGED bovars

\* mgpu_irq_init's tasklet: mdev->irq_status = 0, and the lock is dropped.
IrqTaskletClear ==
    /\ bpc = "taken"
    /\ irq_status' = {}
    /\ bpc' = "dispatch"
    /\ UNCHANGED <<irq_by, hw_irq, tasklet_sched, tpc, th_status, th_tmp,
                   bh_status, owed>>
    /\ UNCHANGED <<schedvars, resetvars, ringvars>>
    /\ UNCHANGED regvars
    /\ UNCHANGED depvars
    /\ UNCHANGED histvars
    /\ UNCHANGED prodvars
    /\ UNCHANGED mkvars
    /\ UNCHANGED retvars
    /\ UNCHANGED fencevars
    /\ UNCHANGED seqvars
    /\ UNCHANGED healthvars
    /\ UNCHANGED valvars
    /\ UNCHANGED pollvars
    /\ UNCHANGED bovars

\* mgpu_irq_tasklet_func, the rest: every bit of status is dispatched.
IrqTaskletDispatch ==
    /\ bpc = "dispatch"
    /\ owed' = owed \ bh_status
    /\ bh_status' = {}
    /\ bpc' = "idle"
    /\ UNCHANGED <<irq_by, hw_irq, irq_status, tasklet_sched, tpc, th_status,
                   th_tmp>>
    /\ UNCHANGED <<schedvars, resetvars, ringvars>>
    /\ UNCHANGED regvars
    /\ UNCHANGED depvars
    /\ UNCHANGED histvars
    /\ UNCHANGED prodvars
    /\ UNCHANGED mkvars
    /\ UNCHANGED retvars
    /\ UNCHANGED fencevars
    /\ UNCHANGED seqvars
    /\ UNCHANGED healthvars
    /\ UNCHANGED valvars
    /\ UNCHANGED pollvars
    /\ UNCHANGED bovars

\* ----------------------------------------------------------- specifications
PriorityArgs == {MGPU_PRIORITY_LOW, MGPU_PRIORITY_REALTIME}

Next ==
    \/ \E p \in PriorityArgs, s \in BOOLEAN, d \in 0 .. MaxJobs : SchedSubmitAlloc(p, s, d)
    \/ \E j \in Jobs : SchedSubmitFill(j)
    \/ \E j \in Jobs : SchedSubmitJob(j)
    \/ \E j \in Jobs : WaitJobDone(j)
    \/ \E j \in Jobs : WaitJobTimeout(j)
    \/ \E skip \in BOOLEAN : ProcessQueueSelect(skip)
    \/ ProcessQueueMark
    \/ \E copied \in BOOLEAN : ProcessQueueStart(copied)
    \/ ProcessQueueCountLoad
    \/ ProcessQueueCountStore
    \/ \E hw_busy \in BOOLEAN, hw_error \in BOOLEAN : QueueIrqHandler(hw_busy, hw_error)
    \/ QueueIrqComplete
    \/ \E id \in 2 .. (MaxJobs + 1), skip \in BOOLEAN : SchedCancelJob(id, skip)
    \/ \E j \in Jobs : Tick(j)
    \/ \E skip \in BOOLEAN : SchedTimeoutWork(skip)
    \/ SchedFini
    \/ SchedFiniFree
    \/ ResetWorkBegin
    \/ ResetWorkSetFlag
    \/ \E hw_ok \in BOOLEAN : ResetWorkFinish(hw_ok)
    \/ \E k \in 1 .. JobCmdDwords : DeviceConsume(k)

Spec == Init /\ [][Next]_vars

\* The threads of the driver keep running: the scheduler worker loops, the
\* sweep re-arms itself every second, the workqueue runs a queued reset
\* work, a caller inside mgpu_sched_submit goes on, and
\* wait_for_completion_timeout returns. Nothing is assumed of the device or
\* of the callers of the API.
Fairness ==
    /\ WF_vars(\E skip \in BOOLEAN : ProcessQueueSelect(skip))
    /\ WF_vars(ProcessQueueMark)
    /\ WF_vars(\E copied \in BOOLEAN : ProcessQueueStart(copied))
    /\ WF_vars(ProcessQueueCountLoad)
    /\ WF_vars(ProcessQueueCountStore)
    /\ WF_vars(QueueIrqComplete)
    /\ WF_vars(\E skip \in BOOLEAN : SchedTimeoutWork(skip))
    /\ WF_vars(\E j \in Jobs : SchedSubmitFill(j))
    /\ WF_vars(\E j \in Jobs : SchedSubmitJob(j))
    /\ WF_vars(\E j \in Jobs : WaitJobDone(j) \/ WaitJobTimeout(j))
    /\ WF_vars(ResetWorkBegin)
    /\ WF_vars(ResetWorkSetFlag)
    /\ WF_vars(\E hw_ok \in BOOLEAN : ResetWorkFinish(hw_ok))

SpecFair == Spec /\ Fairness

\* ---- the submitters, the worker, the device's completions and the sweep,
\* with the same threads kept running
NextSweep ==
    \/ \E p \in PriorityArgs, s \in BOOLEAN, d \in 0 .. MaxJobs : SchedSubmitAlloc(p, s, d)
    \/ \E j \in Jobs : SchedSubmitFill(j)
    \/ \E j \in Jobs : SchedSubmitJob(j)
    \/ \E skip \in BOOLEAN : ProcessQueueSelect(skip)
    \/ ProcessQueueMark
    \/ \E copied \in BOOLEAN : ProcessQueueStart(copied)
    \/ ProcessQueueCountLoad
    \/ ProcessQueueCountStore
    \/ \E hw_busy \in BOOLEAN, hw_error \in BOOLEAN : QueueIrqHandler(hw_busy, hw_error)
    \/ QueueIrqComplete
    \/ \E j \in Jobs : Tick(j)
    \/ \E skip \in BOOLEAN : SchedTimeoutWork(skip)

SpecSweep == Init /\ [][NextSweep]_vars /\ Fairness

\* ---- the same with the reset work that the sweep schedules
NextRecover ==
    \/ NextSweep
    \/ ResetWorkBegin
    \/ ResetWorkSetFlag
    \/ \E hw_ok \in BOOLEAN : ResetWorkFinish(hw_ok)

SpecRecover == Init /\ [][NextRecover]_vars /\ Fairness

\* ---- the command ring alone
\* cmd_size / 4 of the submissions
CmdDwords == {1, 512, 1023}
\* The dwords the device fetches in one step: half a ring, or all there is.
DrainDwords == {RingDwords \div 2, (cmd_tail - cmd_head) % RingDwords}

\* mgpu_submit_commands called directly (mgpu_sched_submit without a
\* scheduler, the submit ioctl).
SubmitCommands(dw, fence, copied) ==
    /\ submitted_cmds < MaxSubmits
    /\ RingApply(mgpu_submit_commands(TRUE, dw, fence, copied))
    /\ UNCHANGED <<schedvars, resetvars>>
    /\ UNCHANGED irqvars
    /\ UNCHANGED regvars
    /\ UNCHANGED depvars
    /\ UNCHANGED histvars
    /\ UNCHANGED prodvars
    /\ UNCHANGED mkvars
    /\ sub_ret' = mgpu_submit_commands(TRUE, dw, fence, copied).ret
    /\ UNCHANGED fencevars
    /\ UNCHANGED seqvars
    /\ UNCHANGED healthvars
    /\ UNCHANGED valvars
    /\ UNCHANGED pollvars
    /\ UNCHANGED bovars

\* ---- the producers step by step
\* what a producer stores first: the caller's commands, or the DMA command
PayloadDwords(pr) == IF pr = "submit" THEN {1, RingDwords - 1} ELSE {DmaDwords}
\* the dwords of the producer's next mgpu_ring_write
NextDwords(pr) ==
    IF ppc[pr] = "locked" THEN PayloadDwords(pr)
    ELSE IF ppc[pr] = "written" /\ pfence[pr] THEN {FenceDwords}
    ELSE {}

\* spin_lock(&mdev->cmd_lock) of mgpu_submit_commands (with or without
\* MGPU_SUBMIT_FLAGS_FENCE), spin_lock_irqsave of mgpu_dma_copy
ProducerLock(pr, fence) ==
    /\ submitted_cmds < MaxKicks
    /\ ppc[pr] = "idle"
    /\ cmd_lock = "free"
    /\ fence => pr = "submit"
    /\ cmd_lock' = pr
    /\ ppc' = [ppc EXCEPT ![pr] = "locked"]
    /\ pfence' = [pfence EXCEPT ![pr] = fence]
    /\ UNCHANGED <<ptail, mem_upto>>
    /\ UNCHANGED <<schedvars, resetvars, ringvars, irqvars, regvars, depvars,
                   histvars>>
    /\ UNCHANGED mkvars
    /\ UNCHANGED retvars
    /\ UNCHANGED fencevars
    /\ UNCHANGED seqvars
    /\ UNCHANGED healthvars
    /\ UNCHANGED valvars
    /\ UNCHANGED pollvars
    /\ UNCHANGED bovars

\* mgpu_ring_wait_space found room: the stores of mgpu_ring_write, up to
\* its wmb()
ProducerStore(pr, dw) ==
    /\ dw \in NextDwords(pr)
    /\ mgpu_ring_wait_space(cmd_head, ring_tail, dw) = 0
    /\ ptail' = [ptail EXCEPT ![pr] = mgpu_ring_write(ring_tail, dw)]
    /\ mem_upto' = mgpu_ring_write(ring_tail, dw)
    /\ pfence' = [pfence EXCEPT ![pr] = @ /\ ppc[pr] = "locked"]
    /\ ppc' = [ppc EXCEPT ![pr] = "stored"]
    /\ owned' = IF owned + dw > RingDwords THEN RingDwords ELSE owned + dw
    /\ clobbered' = (clobbered \/ owned + dw > RingDwords)
    /\ UNCHANGED <<ring_tail, cmd_head, cmd_tail, doorbells, submitted_cmds>>
    /\ UNCHANGED cmd_lock
    /\ UNCHANGED <<schedvars, resetvars, irqvars, regvars, depvars, histvars>>
    /\ UNCHANGED mkvars
    /\ UNCHANGED retvars
    /\ UNCHANGED fencevars
    /\ UNCHANGED seqvars
    /\ UNCHANGED healthvars
    /\ UNCHANGED valvars
    /\ UNCHANGED pollvars
    /\ UNCHANGED bovars

\* mgpu_ring_write after the wmb(): ring->tail = tail
ProducerSetTail(pr) ==
    /\ ppc[pr] = "stored"
    /\ ring_tail' = ptail[pr]
    /\ ppc' = [ppc EXCEPT ![pr] = "written"]
    /\ UNCHANGED <<cmd_head, cmd_tail, doorbells, submitted_cmds, owned, clobbered>>
    /\ UNCHANGED <<cmd_lock, ptail, pfence, mem_upto>>
    /\ UNCHANGED <<schedvars, resetvars, irqvars, regvars, depvars, histvars>>
    /\ UNCHANGED mkvars
    /\ UNCHANGED retvars
    /\ UNCHANGED fencevars
    /\ UNCHANGED seqvars
    /\ UNCHANGED healthvars
    /\ UNCHANGED valvars
    /\ UNCHANGED pollvars
    /\ UNCHANGED bovars

\* mgpu_ring_wait_space ran out of time: the producer unlocks and returns
\* -ETIMEDOUT, leaving what it has written behind ring->tail
ProducerTimeout(pr, dw) ==
    /\ dw \in NextDwords(pr)
    /\ mgpu_ring_wait_space(cmd_head, ring_tail, dw) # 0
    /\ cmd_lock' = "free"
    /\ ppc' = [ppc EXCEPT ![pr] = "idle"]
    /\ pfence' = [pfence EXCEPT ![pr] = FALSE]
    /\ UNCHANGED <<ptail, mem_upto>>
    /\ UNCHANGED <<schedvars, resetvars, ringvars, irqvars, regvars, depvars,
                   histvars>>
    /\ UNCHANGED mkvars
    /\ UNCHANGED retvars
    /\ UNCHANGED fencevars
    /\ UNCHANGED seqvars
    /\ UNCHANGED healthvars
    /\ UNCHANGED valvars
    /\ UNCHANGED pollvars
    /\ UNCHANGED bovars

\* mgpu_ring_kick with its two writes swapped: the doorbell first
ProducerKickTailLate(pr) ==
    /\ ppc[pr] = "written"
    /\ ~pfence[pr]
    /\ doorbells' = doorbells + 1
    /\ ppc' = [ppc EXCEPT ![pr] = "tailed"]
    /\ UNCHANGED <<ring_tail, cmd_head, cmd_tail, submitted_cmds, owned, clobbered>>
    /\ UNCHANGED <<cmd_lock, ptail, pfence, mem_upto>>
    /\ UNCHANGED <<schedvars, resetvars, irqvars, regvars, depvars, histvars>>
    /\ UNCHANGED mkvars
    /\ UNCHANGED retvars
    /\ UNCHANGED fencevars
    /\ UNCHANGED seqvars
    /\ UNCHANGED healthvars
    /\ UNCHANGED valvars
    /\ UNCHANGED pollvars
    /\ UNCHANGED bovars

\* mgpu_ring_kick, first write: CMD_TAIL = ring->tail
ProducerKickTail(pr) ==
    /\ ppc[pr] = "written"
    /\ ~pfence[pr]
    /\ cmd_tail' = ring_tail
    /\ ppc' = [ppc EXCEPT ![pr] = "tailed"]
    /\ UNCHANGED <<ring_tail, cmd_head, doorbells, submitted_cmds, owned, clobbered>>
    /\ UNCHANGED <<cmd_lock, ptail, pfence, mem_upto>>
    /\ UNCHANGED <<schedvars, resetvars, irqvars, regvars, depvars, histvars>>
    /\ UNCHANGED mkvars
    /\ UNCHANGED retvars
    /\ UNCHANGED fencevars
    /\ UNCHANGED seqvars
    /\ UNCHANGED healthvars
    /\ UNCHANGED valvars
    /\ UNCHANGED pollvars
    /\ UNCHANGED bovars

\* mgpu_ring_kick, second write: the doorbell; ring->submitted_cmds++
ProducerKickDoorbell(pr) ==
    /\ ppc[pr] = "tailed"
    /\ doorbells' = doorbells + 1
    /\ submitted_cmds' = submitted_cmds + 1
    /\ ppc' = [ppc EXCEPT ![pr] = "kicked"]
    /\ UNCHANGED <<ring_tail, cmd_head, cmd_tail, owned, clobbered>>
    /\ UNCHANGED <<cmd_lock, ptail, pfence, mem_upto>>
    /\ UNCHANGED <<schedvars, resetvars, irqvars, regvars, depvars, histvars>>
    /\ UNCHANGED mkvars
    /\ UNCHANGED retvars
    /\ UNCHANGED fencevars
    /\ UNCHANGED seqvars
    /\ UNCHANGED healthvars
    /\ UNCHANGED valvars
    /\ UNCHANGED pollvars
    /\ UNCHANGED bovars

\* spin_unlock(&mdev->cmd_lock)
ProducerUnlock(pr) ==
    /\ ppc[pr] = "kicked"
    /\ cmd_lock' = "free"
    /\ ppc' = [ppc EXCEPT ![pr] = "idle"]
    /\ UNCHANGED <<ptail, pfence, mem_upto>>
    /\ UNCHANGED <<schedvars, resetvars, ringvars, irqvars, regvars, depvars,
                   histvars>>
    /\ UNCHANGED mkvars
    /\ UNCHANGED retvars
    /\ UNCHANGED fencevars
    /\ UNCHANGED seqvars
    /\ UNCHANGED healthvars
    /\ UNCHANGED valvars
    /\ UNCHANGED pollvars
    /\ UNCHANGED bovars

\* the producers and the device
NextProd ==
    \/ \E pr \in Producers, fence \in BOOLEAN : ProducerLock(pr, fence)
    \/ \E pr \in Producers, dw \in {1, RingDwords - 1, DmaDwords, FenceDwords} :
           ProducerStore(pr, dw)
    \/ \E pr \in Producers : ProducerSetTail(pr)
    \/ \E pr \in Producers, dw \in {1, RingDwords - 1, DmaDwords, FenceDwords} :
           ProducerTimeout(pr, dw)
    \/ \E pr \in Producers : ProducerKickTail(pr)
    \/ \E pr \in Producers : ProducerKickDoorbell(pr)
    \/ \E pr \in Producers : ProducerUnlock(pr)
    \/ \E k \in DrainDwords : DeviceConsume(k)

SpecProd == Init /\ [][NextProd]_vars

\* the same with the reset work, whose mgpu_cmdq_resume rewrites the ring
\* registers
NextProdReset ==
    \/ NextProd
    \/ ResetSchedule
    \/ ResetWorkBegin
    \/ ResetWorkSetFlag
    \/ \E hw_ok \in BOOLEAN : ResetWorkFinish(hw_ok)

SpecProdReset == Init /\ [][NextProdReset]_vars

\* ---- rings of any size
\* the sizes callers ask mgpu_ring_create for
RequestSizes == {0, 4095, 4096, 4097, 8192, 100000, 131073, 262144, 262145}
\* the dwords of a write; what an uninitialised u32 may hold
MadeCmdDwords == {1, RingDwords - 1}
Garbage == {0, 1023, 2147483647}

\* mgpu_ring_create(mdev, size, queue_id)
RingCreate(size) ==
    /\ mring = NoRing
    /\ mgpu_ring_create(size) # 0
    /\ mring' = [size |-> mgpu_ring_create(size), asked |-> size, tail |-> 0,
                 last_head |-> 0, head |-> 0, cmd_tail |-> 0, writes |-> 0]
    /\ UNCHANGED <<schedvars, resetvars, ringvars, irqvars, regvars, depvars,
                   histvars, prodvars>>
    /\ UNCHANGED retvars
    /\ UNCHANGED fencevars
    /\ UNCHANGED seqvars
    /\ UNCHANGED healthvars
    /\ UNCHANGED valvars
    /\ UNCHANGED pollvars
    /\ UNCHANGED bovars

\* mgpu_ring_write and mgpu_ring_kick on that ring
RingWriteKick(dw) ==
    /\ mring # NoRing
    /\ mring.writes < MaxRingWrites
    /\ LET t == ring_write_steps(mring.tail, dw, mring.size \div 4)
       IN  mring' = [mring EXCEPT !.tail = t, !.cmd_tail = t, !.writes = @ + 1]
    /\ UNCHANGED <<schedvars, resetvars, ringvars, irqvars, regvars, depvars,
                   histvars, prodvars>>
    /\ UNCHANGED retvars
    /\ UNCHANGED fencevars
    /\ UNCHANGED seqvars
    /\ UNCHANGED healthvars
    /\ UNCHANGED valvars
    /\ UNCHANGED pollvars
    /\ UNCHANGED bovars

\* the device fetches up to CMD_TAIL
RingConsume ==
    /\ mring # NoRing
    /\ mring.head # mring.cmd_tail
    /\ mring.cmd_tail < mring.size \div 4
    /\ mring' = [mring EXCEPT !.head = mring.cmd_tail]
    /\ UNCHANGED <<schedvars, resetvars, ringvars, irqvars, regvars, depvars,
                   histvars, prodvars>>
    /\ UNCHANGED retvars
    /\ UNCHANGED fencevars
    /\ UNCHANGED seqvars
    /\ UNCHANGED healthvars
    /\ UNCHANGED valvars
    /\ UNCHANGED pollvars
    /\ UNCHANGED bovars

\* mgpu_cmdq_suspend: the loop reads CMD_HEAD at least once (entered), or
\* its second of waiting has gone by before the first test of the loop and
\* ring->last_head is set from the uninitialised local
RingSuspend(entered, junk) ==
    /\ mring # NoRing
    /\ mring' = [mring EXCEPT !.last_head = IF entered THEN mring.head ELSE junk]
    /\ UNCHANGED <<schedvars, resetvars, ringvars, irqvars, regvars, depvars,
                   histvars, prodvars>>
    /\ UNCHANGED retvars
    /\ UNCHANGED fencevars
    /\ UNCHANGED seqvars
    /\ UNCHANGED healthvars
    /\ UNCHANGED valvars
    /\ UNCHANGED pollvars
    /\ UNCHANGED bovars

\* mgpu_cmdq_resume
RingResume ==
    /\ mring # NoRing
    /\ mring' = [mring EXCEPT !.head = mring.last_head, !.cmd_tail = mring.tail]
    /\ UNCHANGED <<schedvars, resetvars, ringvars, irqvars, regvars, depvars,
                   histvars, prodvars>>
    /\ UNCHANGED retvars
    /\ UNCHANGED fencevars
    /\ UNCHANGED seqvars
    /\ UNCHANGED healthvars
    /\ UNCHANGED valvars
    /\ UNCHANGED pollvars
    /\ UNCHANGED bovars

\* mgpu_ring_destroy
RingDestroy ==
    /\ mring # NoRing
    /\ mring' = NoRing
    /\ UNCHANGED <<schedvars, resetvars, ringvars, irqvars, regvars, depvars,
                   histvars, prodvars>>
    /\ UNCHANGED retvars
    /\ UNCHANGED fencevars
    /\ UNCHANGED seqvars
    /\ UNCHANGED healthvars
    /\ UNCHANGED valvars
    /\ UNCHANGED pollvars
    /\ UNCHANGED bovars

\* ---- the health monitor
\* time is counted in seconds: one jiffy of the model is 1000 ms
MsPerTick == 1000
MGPU_HEARTBEAT_TIMEOUT_MS == 5000
MGPU_ERROR_THRESHOLD == 10
\* how long the clock runs, how many checks run, how often CMD_HEAD and the
\* fence value move
MaxClock == 6
MaxChecks == 3
MaxMoves == 1

\* time_after(a, b) of the kernel, on times that do not wrap
time_after(a, b) == a > b

\* one of the two comparisons of mgpu_health_check_hang: r is the result so
\* far, f the field of the monitor that holds the last sample
hang_compare(r, f, sample, now) ==
    IF sample = r.m[f]
    THEN [hung |-> r.hung \/ time_after(now, r.m.last_activity
                                  + MGPU_HEARTBEAT_TIMEOUT_MS \div MsPerTick),
          m |-> r.m]
    ELSE [hung |-> r.hung,
          m |-> [r.m EXCEPT ![f] = sample, !.last_activity = now]]

\* mgpu_health_check_hang: whether it says the device hangs, and the monitor
\* it leaves
mgpu_health_check_hang(m, status_busy, d) ==
    IF ~status_busy THEN [hung |-> FALSE, m |-> m]
    ELSE hang_compare(hang_compare([hung |-> FALSE, m |-> m],
                                   "last_cmd_head", d.head, d.now),
                      "last_fence_value", d.fence, d.now)

\* mgpu_health_check_heartbeat: scratch_ok says that SCRATCH read back as
\* the counter that was written
mgpu_health_check_heartbeat(m, scratch_ok) ==
    [alive |-> scratch_ok,
     m |-> IF scratch_ok THEN m
           ELSE [m EXCEPT !.heartbeat_misses = @ + 1]]

\* mgpu_health_check_errors: the count it returns and the monitor it leaves
mgpu_health_check_errors(m, status_error, status_halted) ==
    [error_count |-> (IF status_error THEN 1 ELSE 0)
                     + (IF status_halted THEN 1 ELSE 0),
     m |-> [m EXCEPT !.consecutive_errors = IF status_error THEN @ + 1 ELSE 0]]

\* mgpu_health_check, called by mgpu_health_work_func, by mgpu_monitor_thread
\* and by mgpu_health_check_now, with what the registers read
HealthCheck(scratch_ok, status_error, status_halted, status_busy) ==
    LET hb == mgpu_health_check_heartbeat(monitor, scratch_ok)
        er == mgpu_health_check_errors(hb.m, status_error, status_halted)
        errs == er.error_count > 0
                /\ er.m.consecutive_errors >= MGPU_ERROR_THRESHOLD
        hg == mgpu_health_check_hang(er.m, status_busy, hw)
        needs_reset == ~hb.alive \/ errs \/ hg.hung
    IN  /\ hlast.n < MaxChecks
        /\ requests < MaxResets
        /\ monitor' = hg.m
        /\ hlast' = [n |-> hlast.n + 1, kind |-> "health", alive |-> hb.alive,
                     errs |-> errs, hung |-> hg.hung, busy |-> status_busy,
                     reset |-> needs_reset,
                     run |-> IF hb.alive THEN 0 ELSE hlast.run + 1]
        /\ reset_schedule_times(IF needs_reset THEN 1 ELSE 0)
        /\ UNCHANGED hw
        /\ UNCHANGED <<schedvars, ringvars, irqvars, regvars, depvars,
                       histvars, prodvars, mkvars, retvars, fencevars, seqvars>>
        /\ UNCHANGED valvars
        /\ UNCHANGED pollvars
        /\ UNCHANGED bovars

\* mgpu_hang_check_work_func
HangCheckWork(status_busy) ==
    LET hg == mgpu_health_check_hang(monitor, status_busy, hw)
    IN  /\ hlast.n < MaxChecks
        /\ requests < MaxResets
        /\ monitor' = hg.m
        /\ hlast' = [hlast EXCEPT !.n = @ + 1, !.kind = "hang",
                                  !.hung = hg.hung, !.busy = status_busy,
                                  !.reset = hg.hung]
        /\ reset_schedule_times(IF hg.hung THEN 1 ELSE 0)
        /\ UNCHANGED hw
        /\ UNCHANGED <<schedvars, ringvars, irqvars, regvars, depvars,
                       histvars, prodvars, mkvars, retvars, fencevars, seqvars>>
        /\ UNCHANGED valvars
        /\ UNCHANGED pollvars
        /\ UNCHANGED bovars

\* a second passes
HealthTick ==
    /\ hw.now < MaxClock
    /\ hw' = [hw EXCEPT !.now = @ + 1]
    /\ UNCHANGED <<monitor, hlast>>
    /\ UNCHANGED <<schedvars, resetvars, ringvars, irqvars, regvars, depvars,
                   histvars, prodvars, mkvars, retvars, fencevars, seqvars>>
    /\ UNCHANGED valvars
    /\ UNCHANGED pollvars
    /\ UNCHANGED bovars

\* the device consumes a command: CMD_HEAD moves
DeviceHeadMoves ==
    /\ hw.head < MaxMoves
    /\ hw' = [hw EXCEPT !.head = @ + 1, !.head_at = hw.now]
    /\ UNCHANGED <<monitor, hlast>>
    /\ UNCHANGED <<schedvars, resetvars, ringvars, irqvars, regvars, depvars,
                   histvars, prodvars, mkvars, retvars, fencevars, seqvars>>
    /\ UNCHANGED valvars
    /\ UNCHANGED pollvars
    /\ UNCHANGED bovars

\* the device completes a fence: FENCE_VALUE moves
DeviceFenceMoves ==
    /\ hw.fence < MaxMoves
    /\ hw' = [hw EXCEPT !.fence = @ + 1, !.fence_at = hw.now]
    /\ UNCHANGED <<monitor, hlast>>
    /\ UNCHANGED <<schedvars, resetvars, ringvars, irqvars, regvars, depvars,
                   histvars, prodvars, mkvars, retvars, fencevars, seqvars>>
    /\ UNCHANGED valvars
    /\ UNCHANGED pollvars
    /\ UNCHANGED bovars

NextHealth ==
    \/ \E scratch_ok, status_error, status_halted, status_busy \in BOOLEAN :
           HealthCheck(scratch_ok, status_error, status_halted, status_busy)
    \/ \E status_busy \in BOOLEAN : HangCheckWork(status_busy)
    \/ HealthTick
    \/ DeviceHeadMoves
    \/ DeviceFenceMoves

SpecHealth == Init /\ [][NextHealth]_vars

\* ---- the command validator and the paths of a user buffer to the ring
MGPU_CMD_NOP == 0
MGPU_CMD_DRAW == 1
MGPU_CMD_COMPUTE == 2
MGPU_CMD_DMA == 3
MGPU_CMD_FENCE == 4
MGPU_CMD_WAIT == 5
MGPU_CMD_REG_WRITE == 6
MGPU_CMD_REG_READ == 7

\* the bit fields of struct mgpu_cmd_header: opcode : 8, size : 8
hdr_opcode(d) == d % 256
hdr_size(d) == (d \div 256) % 256
\* the header dword of a command
Header(opcode, size) == size * 256 + opcode

\* the user buffers: at most MaxRecords of these records, well formed or
\* not, one after the other, MaxStream dwords at most
MaxStream == 5
MaxRecords == 3
Records ==
    { <<Header(MGPU_CMD_NOP, 1)>>, <<Header(MGPU_CMD_NOP, 0)>>,
      <<Header(8, 1)>>, <<Header(255, 1)>>,
      <<Header(MGPU_CMD_REG_READ, 2), 0>>, <<Header(MGPU_CMD_REG_READ, 3)>>,
      <<Header(MGPU_CMD_REG_WRITE, 3), 0, 0>>,
      <<Header(MGPU_CMD_WAIT, 2), 0>>, <<Header(MGPU_CMD_WAIT, 4), 0, 0, 0>>,
      <<Header(MGPU_CMD_FENCE, 3), 0, 1>>, <<Header(MGPU_CMD_FENCE, 3), 3, 1>>,
      <<Header(MGPU_CMD_COMPUTE, 4), 0, 0, 0>>,
      <<Header(MGPU_CMD_DMA, 4), 0, 256, 256>>,
      <<Header(MGPU_CMD_DMA, 4), 0, 256, 0>>,
      <<Header(MGPU_CMD_DMA, 4), 0, 3, 256>>,
      <<Header(MGPU_CMD_DRAW, 5), 3, 1, 0, 0>>,
      <<Header(MGPU_CMD_DRAW, 5), 0, 1, 0, 0>>,
      <<Header(MGPU_CMD_DRAW, 5), 65537, 1, 0, 0>>,
      <<Header(MGPU_CMD_DRAW, 5), 3, 0, 0, 0>>,
      <<Header(MGPU_CMD_DRAW, 4), 3, 1, 0>> }
RECURSIVE Concats(_)
Concats(n) ==
    IF n = 0 THEN {<<>>}
    ELSE LET shorter == Concats(n - 1)
         IN  shorter \cup {q \o rec : q \in shorter, rec \in Records}
UserStreams == {q \in Concats(MaxRecords) : Len(q) <= MaxStream}
\* how many submissions of the buffer are followed
MaxStreamSubmits == 1

cmd_validators ==
    << [opcode |-> MGPU_CMD_NOP, min_size |-> 1, max_size |-> 1,
        privileged |-> FALSE, validate |-> "none"],
       [opcode |-> MGPU_CMD_DRAW, min_size |-> 5, max_size |-> 8,
        privileged |-> FALSE, validate |-> "draw"],
       [opcode |-> MGPU_CMD_COMPUTE, min_size |-> 4, max_size |-> 8,
        privileged |-> FALSE, validate |-> "none"],
       [opcode |-> MGPU_CMD_DMA, min_size |-> 4, max_size |-> 5,
        privileged |-> FALSE, validate |-> "dma"],
       [opcode |-> MGPU_CMD_FENCE, min_size |-> 3, max_size |-> 3,
        privileged |-> FALSE, validate |-> "fence"],
       [opcode |-> MGPU_CMD_WAIT, min_size |-> 2, max_size |-> 3,
        privileged |-> FALSE, validate |-> "none"],
       [opcode |-> MGPU_CMD_REG_WRITE, min_size |-> 3, max_size |-> 3,
        privileged |-> TRUE, validate |-> "none"],
       [opcode |-> MGPU_CMD_REG_READ, min_size |-> 2, max_size |-> 3,
        privileged |-> TRUE, validate |-> "none"] >>

\* the for loop of mgpu_validate_commands: the index of the first entry of
\* cmd_validators with this opcode, 0 if there is none
find_validator(opcode) ==
    LET hits == {i \in 1 .. Len(cmd_validators) :
                    cmd_validators[i].opcode = opcode}
    IN  IF hits = {} THEN 0 ELSE CHOOSE i \in hits : \A j \in hits : i <= j

\* mgpu_validate_draw_cmd on the command at dword ptr (counted from 0)
mgpu_validate_draw_cmd(cmds, ptr, vertex_base) ==
    IF cmds[ptr + 2] = 0 \/ cmds[ptr + 2] > 65536 THEN EINVAL
    ELSE IF cmds[ptr + 3] = 0 THEN EINVAL
    ELSE IF vertex_base = 0 THEN EINVAL
    ELSE 0

\* mgpu_validate_dma_cmd
mgpu_validate_dma_cmd(cmds, ptr) ==
    IF cmds[ptr + 4] = 0 \/ cmds[ptr + 4] > 16 * 1024 * 1024 THEN EINVAL
    ELSE IF cmds[ptr + 2] % 4 # 0 \/ cmds[ptr + 3] % 4 # 0
            \/ cmds[ptr + 4] % 4 # 0 THEN EINVAL
    ELSE 0

\* mgpu_validate_fence_cmd
mgpu_validate_fence_cmd(cmds, ptr) ==
    IF cmds[ptr + 2] % 4 # 0 THEN EINVAL ELSE 0

\* validator->validate(mdev, ptr, cmd_size): the result, and how many
\* dwords of the command it reads
run_validate(kind, cmds, ptr, vertex_base) ==
    IF kind = "draw"
    THEN [ret |-> mgpu_validate_draw_cmd(cmds, ptr, vertex_base), reads |-> 3]
    ELSE IF kind = "dma"
    THEN [ret |-> mgpu_validate_dma_cmd(cmds, ptr), reads |-> 4]
    ELSE IF kind = "fence"
    THEN [ret |-> mgpu_validate_fence_cmd(cmds, ptr), reads |-> 3]
    ELSE [ret |-> 0, reads |-> 1]

Max(a, b) == IF a >= b THEN a ELSE b

\* the while loop of mgpu_validate_commands from dword ptr on: hi is the
\* number of leading dwords read so far, iters the turns taken
RECURSIVE validate_from(_, _, _, _, _)
validate_from(cmds, ptr, vertex_base, hi, iters) ==
    IF ptr >= Len(cmds)
    THEN [ret |-> 0, cmds |-> cmds, hi |-> hi, iters |-> iters]
    ELSE LET hdr == cmds[ptr + 1]
             v == find_validator(hdr_opcode(hdr))
             cmd_size == hdr_size(hdr)
             bad == [ret |-> EINVAL, cmds |-> cmds, hi |-> Max(hi, ptr + 1),
                     iters |-> iters + 1]
         IN  IF v = 0 THEN bad
             ELSE IF cmd_size < cmd_validators[v].min_size
                     \/ cmd_size > cmd_validators[v].max_size THEN bad
             ELSE IF ptr + cmd_size > Len(cmds) THEN bad
             ELSE LET r == run_validate(cmd_validators[v].validate, cmds, ptr,
                                        vertex_base)
                      seen == Max(hi, ptr + r.reads)
                  IN  IF r.ret # 0
                      THEN [ret |-> r.ret, cmds |-> cmds, hi |-> seen,
                            iters |-> iters + 1]
                      ELSE validate_from(
                               IF cmd_validators[v].privileged
                               THEN [cmds EXCEPT ![ptr + 1] =
                                         Header(MGPU_CMD_NOP, hdr_size(hdr))]
                               ELSE cmds,
                               ptr + cmd_size, vertex_base, seen, iters + 1)

\* mgpu_validate_commands(mdev, cmds, size_bytes) on a buffer of whole dwords
mgpu_validate_commands(cmds, vertex_base) ==
    validate_from(cmds, 0, vertex_base, 0, 0)

\* the dwords a call of mgpu_submit_commands that returned r stored: the
\* commands, then the fence command it builds from the arguments
StoredWords(r, cmds, dw) ==
    (IF r.wrote >= dw /\ r.wrote > 0 THEN cmds ELSE <<>>)
    \o (IF r.wrote = dw + FenceDwords
        THEN <<Header(MGPU_CMD_FENCE, FenceDwords), 0, 1>> ELSE <<>>)

\* a direct call of mgpu_validate_commands on the buffer (as the KUnit
\* tests make it), with what MGPU_REG_VERTEX_BASE reads
ValidateCommands(vertex_base) ==
    /\ vres = <<>>
    /\ vres' = <<mgpu_validate_commands(stream, vertex_base)
                   @@ [vertex_base |-> vertex_base]>>
    /\ UNCHANGED <<stream, ring_words, val_ret>>
    /\ UNCHANGED <<schedvars, resetvars, ringvars, irqvars, regvars, depvars,
                   histvars, prodvars, mkvars, retvars, fencevars, seqvars>>
    /\ UNCHANGED healthvars
    /\ UNCHANGED pollvars
    /\ UNCHANGED bovars

\* mgpu_submit_validated on the buffer: user_ok and copied say whether its
\* copy_from_user and that of mgpu_submit_commands succeed
SubmitValidated(vertex_base, fence, user_ok, copied) ==
    LET v == mgpu_validate_commands(stream, vertex_base)
        r == mgpu_submit_commands(TRUE, Len(stream), fence, copied)
    IN  /\ Len(val_ret) < MaxStreamSubmits
        /\ IF Len(stream) = 0
           THEN /\ val_ret' = Append(val_ret, EINVAL)
                /\ UNCHANGED <<ringvars, vres, ring_words>>
           ELSE IF ~user_ok
           THEN /\ val_ret' = Append(val_ret, EFAULT)
                /\ UNCHANGED <<ringvars, vres, ring_words>>
           ELSE IF v.ret # 0
           THEN /\ val_ret' = Append(val_ret, v.ret)
                /\ vres' = <<v @@ [vertex_base |-> vertex_base]>>
                /\ UNCHANGED <<ringvars, ring_words>>
           ELSE /\ val_ret' = Append(val_ret, r.ret)
                /\ vres' = <<v @@ [vertex_base |-> vertex_base]>>
                /\ RingApply(r)
                /\ ring_words' = ring_words \o StoredWords(r, v.cmds, Len(stream))
        /\ UNCHANGED stream
        /\ UNCHANGED <<schedvars, resetvars, irqvars, regvars, depvars,
                       histvars, prodvars, mkvars, retvars, fencevars, seqvars>>
        /\ UNCHANGED healthvars
        /\ UNCHANGED pollvars
        /\ UNCHANGED bovars

\* the MGPU_SUBMIT case of the ioctl handler: mgpu_submit_commands on the
\* user's arguments
IoctlSubmit(fence, copied) ==
    LET r == mgpu_submit_commands(TRUE, Len(stream), fence, copied)
    IN  /\ Len(val_ret) < MaxStreamSubmits
        /\ val_ret' = Append(val_ret, r.ret)
        /\ RingApply(r)
        /\ ring_words' = ring_words \o StoredWords(r, stream, Len(stream))
        /\ UNCHANGED <<stream, vres>>
        /\ UNCHANGED <<schedvars, resetvars, irqvars, regvars, depvars,
                       histvars, prodvars, mkvars, retvars, fencevars, seqvars>>
        /\ UNCHANGED healthvars
        /\ UNCHANGED pollvars
        /\ UNCHANGED bovars

\* the driver with a buffer of user space
InitStreams ==
    /\ InitDriver
    /\ seqno = 0
    /\ next_ret = <<>>
    /\ stream \in UserStreams

NextStreams ==
    \/ \E vertex_base \in {0, 268435456} : ValidateCommands(vertex_base)
    \/ \E vertex_base \in {0, 268435456}, fence, user_ok, copied \in BOOLEAN :
           SubmitValidated(vertex_base, fence, user_ok, copied)
    \/ \E fence, copied \in BOOLEAN : IoctlSubmit(fence, copied)

SpecStreams == InitStreams /\ [][NextStreams]_vars

\* ---- the bounded polls: the waits for STATUS_IDLE of mgpu_reset_hw and
\* mgpu_core_reset, and the wait for CMD_HEAD = CMD_TAIL of a synchronous
\* mgpu_submit_commands
ResetPollers == {"mgpu_reset_hw", "mgpu_core_reset"}
Pollers == ResetPollers \cup {"mgpu_submit_commands"}
\* int timeout = ...
PollBudget(kind) ==
    CASE kind = "mgpu_reset_hw" -> 1000
      [] kind = "mgpu_core_reset" -> 100
      [] kind = "mgpu_submit_commands" -> 1000

\* the function up to its loop: the resets write MGPU_CTRL_RESET, sleep, and
\* write 0 to CONTROL; the submission has kicked the ring
PollBegin(kind) ==
    /\ poll.phase \in {"idle", "done"}
    /\ poll' = [kind |-> kind, phase |-> "loop", timeout |-> PollBudget(kind),
                polls |-> 0, seen |-> FALSE, ret |-> 0]
    /\ regs' = IF kind \in ResetPollers THEN RegsAfterHwReset ELSE regs
    /\ UNCHANGED <<schedvars, resetvars, ringvars, irqvars, depvars, histvars,
                   prodvars, mkvars, retvars, fencevars, seqvars, healthvars,
                   valvars>>
    /\ UNCHANGED bovars

\* one test and one turn of `while (timeout--) { status = mgpu_read(STATUS);
\* if (status & MGPU_STATUS_IDLE) break; msleep(1); }`
ResetPoll(idle) ==
    /\ poll.kind \in ResetPollers
    /\ poll.phase = "loop"
    /\ poll' = IF poll.timeout = 0
               THEN [poll EXCEPT !.timeout = @ - 1, !.phase = "after"]
               ELSE [poll EXCEPT !.timeout = @ - 1,
                                 !.polls = @ + 1,
                                 !.seen = idle,
                                 !.phase = IF idle THEN "after" ELSE "loop"]
    /\ UNCHANGED <<schedvars, resetvars, ringvars, irqvars, regvars, depvars,
                   histvars, prodvars, mkvars, retvars, fencevars, seqvars,
                   healthvars, valvars>>
    /\ UNCHANGED bovars

\* one turn and one test of `do { head = ...; tail = ...; if (head == tail)
\* break; msleep(1); } while (timeout-- > 0)`
SyncPoll(reached) ==
    /\ poll.kind = "mgpu_submit_commands"
    /\ poll.phase = "loop"
    /\ poll' = IF reached
               THEN [poll EXCEPT !.polls = @ + 1, !.seen = TRUE,
                                 !.phase = "after"]
               ELSE [poll EXCEPT !.polls = @ + 1,
                                 !.timeout = @ - 1,
                                 !.phase = IF poll.timeout > 0 THEN "loop"
                                           ELSE "after"]
    /\ UNCHANGED <<schedvars, resetvars, ringvars, irqvars, regvars, depvars,
                   histvars, prodvars, mkvars, retvars, fencevars, seqvars,
                   healthvars, valvars>>
    /\ UNCHANGED bovars

\* the rest of the function: `if (timeout <= 0) return -ETIMEDOUT;`, then in
\* mgpu_reset_hw the test of mgpu_core_test_alive
PollEnd(alive) ==
    /\ poll.phase = "after"
    /\ poll' = [poll EXCEPT !.phase = "done",
                            !.ret = IF poll.timeout <= 0 THEN ETIMEDOUT
                                    ELSE IF poll.kind = "mgpu_reset_hw" /\ ~alive
                                    THEN EIO
                                    ELSE 0]
    /\ UNCHANGED <<schedvars, resetvars, ringvars, irqvars, regvars, depvars,
                   histvars, prodvars, mkvars, retvars, fencevars, seqvars,
                   healthvars, valvars>>
    /\ UNCHANGED bovars

NextPoll ==
    \/ \E kind \in Pollers : PollBegin(kind)
    \/ \E idle \in BOOLEAN : ResetPoll(idle)
    \/ \E reached \in BOOLEAN : SyncPoll(reached)
    \/ \E alive \in BOOLEAN : PollEnd(alive)

SpecPoll == Init /\ [][NextPoll]_vars

\* ---- buffer objects
\* the calls of mgpu_bo_destroy a thread makes
MaxDestroys == 2

\* kref_get(&bo->refcount) of mgpu_bo_lookup. On an object whose count is 0
\* (mgpu_bo_free is running, the handle is still in the IDR) refcount_inc
\* warns and the caller gets the pointer all the same.
kref_get(b) ==
    IF b.state = "live" THEN [b EXCEPT !.refcount = @ + 1]
    ELSE [b EXCEPT !.uaf = TRUE]

\* kref_put(&bo->refcount, mgpu_bo_free) up to the call of mgpu_bo_free. On
\* freed memory the decrement is undefined: it may find a count of 1 and free
\* the object again (again), or not.
kref_put(b, u, again) ==
    IF b.state = "freed"
    THEN [b EXCEPT !.uaf = TRUE,
                   !.frees = IF again /\ @ < 2 THEN @ + 1 ELSE @]
    ELSE IF b.state = "dying" THEN [b EXCEPT !.uaf = TRUE]
    ELSE IF b.refcount = 1
    THEN [b EXCEPT !.refcount = 0, !.state = "dying", !.freer = u]
    ELSE [b EXCEPT !.refcount = @ - 1]

\* the thread is inside mgpu_bo_free
Freeing(u) == bo.state = "dying" /\ bo.freer = u

\* mgpu_bo_create: kref_init, mgpu_bo_alloc_handle
BoCreate ==
    /\ bo.state = "none"
    /\ bo' = [bo EXCEPT !.state = "live", !.refcount = 1, !.in_idr = TRUE]
    /\ UNCHANGED bu
    /\ UNCHANGED <<schedvars, resetvars, ringvars, irqvars, regvars, depvars,
                   histvars, prodvars, mkvars, retvars, fencevars, seqvars,
                   healthvars, valvars, pollvars>>

\* mgpu_bo_lookup by a user of the object (under mgpu_bo_idr_lock); a lookup
\* that finds nothing changes nothing
BoLookup(u) ==
    /\ ~Freeing(u)
    /\ bu[u].dpc = "idle"
    /\ bu[u].held = 0
    /\ bo.in_idr
    /\ bo' = kref_get(bo)
    /\ bu' = [bu EXCEPT ![u].held = 1]
    /\ UNCHANGED <<schedvars, resetvars, ringvars, irqvars, regvars, depvars,
                   histvars, prodvars, mkvars, retvars, fencevars, seqvars,
                   healthvars, valvars, pollvars>>

\* mgpu_bo_put of a reference that mgpu_bo_lookup gave
BoPut(u, again) ==
    /\ ~Freeing(u)
    /\ bu[u].dpc = "idle"
    /\ bu[u].held = 1
    /\ bo' = kref_put(bo, u, again)
    /\ bu' = [bu EXCEPT ![u].held = 0]
    /\ UNCHANGED <<schedvars, resetvars, ringvars, irqvars, regvars, depvars,
                   histvars, prodvars, mkvars, retvars, fencevars, seqvars,
                   healthvars, valvars, pollvars>>

\* mgpu_bo_free from its entry to kfree(bo): the memory is freed and
\* mgpu_bo_free_handle takes the handle out of the IDR
BoFree ==
    /\ bo.state = "dying"
    /\ bo' = [bo EXCEPT !.state = "freed", !.in_idr = FALSE, !.frees = @ + 1,
                        !.freer = "none"]
    /\ UNCHANGED bu
    /\ UNCHANGED <<schedvars, resetvars, ringvars, irqvars, regvars, depvars,
                   histvars, prodvars, mkvars, retvars, fencevars, seqvars,
                   healthvars, valvars, pollvars>>

\* mgpu_bo_destroy, its mgpu_bo_lookup: -EINVAL when the handle is not found
BoDestroyLookup(u) ==
    /\ ~Freeing(u)
    /\ bu[u].dpc = "idle"
    /\ bu[u].calls < MaxDestroys
    /\ bo.state # "none"
    /\ IF bo.in_idr
       THEN /\ bo' = kref_get(bo)
            /\ bu' = [bu EXCEPT ![u].dpc = "looked", ![u].calls = @ + 1]
       ELSE /\ bu' = [bu EXCEPT ![u].calls = @ + 1]
            /\ UNCHANGED bo
    /\ UNCHANGED <<schedvars, resetvars, ringvars, irqvars, regvars, depvars,
                   histvars, prodvars, mkvars, retvars, fencevars, seqvars,
                   healthvars, valvars, pollvars>>

\* mgpu_bo_destroy, its two calls of mgpu_bo_put, and `return 0`
BoDestroyPut(u, again) ==
    /\ ~Freeing(u)
    /\ bu[u].dpc \in {"looked", "put"}
    /\ bo' = [kref_put(bo, u, again) EXCEPT
                 !.destroyed = @ \/ bu[u].dpc = "put"]
    /\ bu' = [bu EXCEPT ![u].dpc = IF @ = "looked" THEN "put" ELSE "idle"]
    /\ UNCHANGED <<schedvars, resetvars, ringvars, irqvars, regvars, depvars,
                   histvars, prodvars, mkvars, retvars, fencevars, seqvars,
                   healthvars, valvars, pollvars>>

NextBo ==
    \/ BoCreate
    \/ \E u \in BoUsers : BoLookup(u)
    \/ \E u \in BoUsers, again \in BOOLEAN : BoPut(u, again)
    \/ BoFree
    \/ \E u \in BoUsers : BoDestroyLookup(u)
    \/ \E u \in BoUsers, again \in BOOLEAN : BoDestroyPut(u, again)

SpecBo == Init /\ [][NextBo]_vars

\* ---- the sequence numbers of the fence engine
\* the values ctx->seqno has after some number of calls of mgpu_fence_next:
\* the first ones, and those around the ends of the int and of the u32
\* (-1 stands for 0xFFFFFFFF)
SeqnoStarts == (0 .. 40) \cup {2147483645, 2147483646, 2147483647}
                   \cup {-2147483647 - 1, -2147483647, -2147483646}
                   \cup {-4, -3, -2, -1}

\* the driver with ctx->seqno at one of these values
InitSeq ==
    /\ InitDriver
    /\ stream = <<>>
    /\ seqno \in SeqnoStarts
    /\ next_ret = <<>>

\* mgpu_fence_next: (u32)atomic_inc_return(&ctx->seqno)
mgpu_fence_next(s) == u32_inc(s)

\* a call of mgpu_fence_next
FenceNext ==
    /\ Len(next_ret) < MaxNextCalls
    /\ seqno' = mgpu_fence_next(seqno)
    /\ next_ret' = Append(next_ret, mgpu_fence_next(seqno))
    /\ UNCHANGED <<schedvars, resetvars, ringvars, irqvars, regvars, depvars,
                   histvars, prodvars, mkvars, retvars, fencevars>>
    /\ UNCHANGED healthvars
    /\ UNCHANGED valvars
    /\ UNCHANGED pollvars
    /\ UNCHANGED bovars

NextSeq == FenceNext

SpecSeq == InitSeq /\ [][NextSeq]_vars

\* ---- the fence engine
\* the cell a waiter waits for has reached its value
FenceReached(w) ==
    mgpu_fence_signaled(cells, fwarg[w].fence_addr, fwarg[w].fence_value)

\* mgpu_wait_fence up to its return: list_del of the wait entry
FenceWaitReturn(w, r) ==
    /\ fwpc' = [fwpc EXCEPT ![w] = "idle"]
    /\ fwret' = [fwret EXCEPT ![w] = <<r>>]
    /\ fwarg' = [fwarg EXCEPT ![w] = NoWait]
    /\ wsignaled' = [wsignaled EXCEPT ![w] = FALSE]
    /\ UNCHANGED <<cells, fence_value_reg, fence_irq>>

\* mgpu_wait_fence is called: the fast path, or the wait entry is put on
\* ctx->wait_list
FenceWaitCall(w, fence_addr, fence_value, timeout_ms) ==
    /\ fwpc[w] = "idle"
    /\ IF mgpu_fence_signaled(cells, fence_addr, fence_value)
       THEN /\ fwret' = [fwret EXCEPT ![w] = <<0>>]
            /\ UNCHANGED <<fwpc, fwarg, wsignaled>>
       ELSE /\ fwret' = [fwret EXCEPT ![w] = <<>>]
            /\ fwpc' = [fwpc EXCEPT ![w] = "listed"]
            /\ fwarg' = [fwarg EXCEPT ![w] = [fence_addr |-> fence_addr,
                                              fence_value |-> fence_value,
                                              timeout_ms |-> timeout_ms]]
            /\ wsignaled' = [wsignaled EXCEPT ![w] = FALSE]
    /\ UNCHANGED <<cells, fence_value_reg, fence_irq>>
    /\ UNCHANGED <<schedvars, resetvars, ringvars, irqvars, regvars, depvars,
                   histvars, prodvars, mkvars, retvars>>
    /\ UNCHANGED seqvars
    /\ UNCHANGED healthvars
    /\ UNCHANGED valvars
    /\ UNCHANGED pollvars
    /\ UNCHANGED bovars

\* wait_event_interruptible_timeout reads its condition: at first, and when
\* the sleeper has been woken. It returns or (goes back to) sleep.
FenceWaitCheck(w) ==
    /\ fwpc[w] \in {"listed", "woken"}
    /\ IF FenceReached(w)
       THEN FenceWaitReturn(w, 0)
       ELSE /\ fwpc' = [fwpc EXCEPT ![w] = "blocked"]
            /\ UNCHANGED <<cells, fence_value_reg, fence_irq, fwarg, wsignaled,
                           fwret>>
    /\ UNCHANGED <<schedvars, resetvars, ringvars, irqvars, regvars, depvars,
                   histvars, prodvars, mkvars, retvars>>
    /\ UNCHANGED seqvars
    /\ UNCHANGED healthvars
    /\ UNCHANGED valvars
    /\ UNCHANGED pollvars
    /\ UNCHANGED bovars

\* the timeout of the wait elapses (timeout_ms # 0): the condition is read
\* a last time; 0 from the wait is -ETIMEDOUT
FenceWaitTimeout(w) ==
    /\ fwpc[w] \in {"blocked", "woken"}
    /\ fwarg[w].timeout_ms # 0
    /\ FenceWaitReturn(w, IF FenceReached(w) THEN 0 ELSE ETIMEDOUT)
    /\ UNCHANGED <<schedvars, resetvars, ringvars, irqvars, regvars, depvars,
                   histvars, prodvars, mkvars, retvars>>
    /\ UNCHANGED seqvars
    /\ UNCHANGED healthvars
    /\ UNCHANGED valvars
    /\ UNCHANGED pollvars
    /\ UNCHANGED bovars

\* a signal is sent to the sleeper: the condition is read first, then the
\* wait gives -ERESTARTSYS
FenceWaitInterrupted(w) ==
    /\ fwpc[w] \in {"blocked", "woken"}
    /\ FenceWaitReturn(w, IF FenceReached(w) THEN 0 ELSE ERESTARTSYS)
    /\ UNCHANGED <<schedvars, resetvars, ringvars, irqvars, regvars, depvars,
                   histvars, prodvars, mkvars, retvars>>
    /\ UNCHANGED seqvars
    /\ UNCHANGED healthvars
    /\ UNCHANGED valvars
    /\ UNCHANGED pollvars
    /\ UNCHANGED bovars

\* The device runs a FENCE command: it stores the value in the cell, shows
\* it in FENCE_VALUE (the most recent fence cell written) and raises
\* MGPU_IRQ_FENCE. The values of a cell only grow.
DeviceFence(fence_addr, fence_value) ==
    /\ fence_value > cells[fence_addr]
    /\ cells' = [cells EXCEPT ![fence_addr] = fence_value]
    /\ fence_value_reg' = fence_value
    /\ fence_irq' = TRUE
    /\ UNCHANGED <<fwpc, fwarg, wsignaled, fwret>>
    /\ UNCHANGED <<schedvars, resetvars, ringvars, irqvars, regvars, depvars,
                   histvars, prodvars, mkvars, retvars>>
    /\ UNCHANGED seqvars
    /\ UNCHANGED healthvars
    /\ UNCHANGED valvars
    /\ UNCHANGED pollvars
    /\ UNCHANGED bovars

\* the wait entries on ctx->wait_list
OnWaitList(w) == fwpc[w] \in {"listed", "blocked", "woken"}

\* mgpu_fence_process, called by the tasklet for MGPU_IRQ_FENCE
FenceProcess ==
    /\ fence_irq
    /\ fence_irq' = FALSE
    /\ LET hit == {w \in Waiters : /\ OnWaitList(w)
                                   /\ ~wsignaled[w]
                                   /\ fence_value_reg >= fwarg[w].fence_value}
       IN  /\ wsignaled' = [w \in Waiters |-> wsignaled[w] \/ w \in hit]
           /\ fwpc' = IF hit # {} THEN wake_up_all(fwpc) ELSE fwpc
    /\ UNCHANGED <<cells, fence_value_reg, fwarg, fwret>>
    /\ UNCHANGED <<schedvars, resetvars, ringvars, irqvars, regvars, depvars,
                   histvars, prodvars, mkvars, retvars>>
    /\ UNCHANGED seqvars
    /\ UNCHANGED healthvars
    /\ UNCHANGED valvars
    /\ UNCHANGED pollvars
    /\ UNCHANGED bovars

NextFence ==
    \/ \E w \in Waiters, fence_addr \in FenceOffsets \cup {OutsidePage},
          fence_value \in FenceValues, timeout_ms \in FenceTimeouts :
           FenceWaitCall(w, fence_addr, fence_value, timeout_ms)
    \/ \E w \in Waiters : FenceWaitCheck(w)
    \/ \E w \in Waiters : FenceWaitTimeout(w)
    \/ \E w \in Waiters : FenceWaitInterrupted(w)
    \/ \E fence_addr \in FenceOffsets, fence_value \in FenceValues :
           DeviceFence(fence_addr, fence_value)
    \/ FenceProcess

SpecFence == Init /\ [][NextFence]_vars

NextMade ==
    \/ \E size \in RequestSizes : RingCreate(size)
    \/ \E dw \in MadeCmdDwords : RingWriteKick(dw)
    \/ RingConsume
    \/ \E entered \in BOOLEAN, junk \in Garbage : RingSuspend(entered, junk)
    \/ RingResume
    \/ RingDestroy

SpecMade == Init /\ [][NextMade]_vars

NextRing ==
    \/ \E dw \in CmdDwords, fence \in BOOLEAN, copied \in BOOLEAN :
           SubmitCommands(dw, fence, copied)
    \/ \E k \in DrainDwords : DeviceConsume(k)

SpecRing == Init /\ [][NextRing]_vars

\* ---- the reset engine alone
NextReset ==
    \/ ResetSchedule
    \/ ResetWorkBegin
    \/ ResetWorkSetFlag
    \/ \E hw_ok \in BOOLEAN : ResetWorkFinish(hw_ok)

SpecReset == Init /\ [][NextReset]_vars

\* ---- the reset engine and the callers of mgpu_reset_wait. The workqueue
\* runs a queued reset work and the work runs to its end; a woken sleeper
\* is scheduled. Nothing is assumed of the callers of mgpu_reset_schedule
\* and of mgpu_reset_wait, nor of the length of a sleeper's timeout.
NextResetWait ==
    \/ ResetSchedule
    \/ ResetWorkBegin
    \/ ResetWorkSetFlag
    \/ \E hw_ok \in BOOLEAN : ResetWorkFinish(hw_ok)
    \/ \E w \in Waiters : ResetWaitEnter(w)
    \/ \E w \in Waiters : ResetWaitWoken(w)
    \/ \E w \in Waiters : ResetWaitTimeout(w)

SpecResetWait ==
    /\ Init
    /\ [][NextResetWait]_vars
    /\ WF_vars(ResetWorkBegin)
    /\ WF_vars(ResetWorkSetFlag)
    /\ WF_vars(\E hw_ok \in BOOLEAN : ResetWorkFinish(hw_ok))
    /\ WF_vars(\E w \in Waiters : ResetWaitWoken(w))

\* ---- the registers: draws program the vertex fetch and the shader PC,
\* the pipeline is stalled and resumed, and the reset engine runs
\* mgpu_pipeline_config_vertex_fetch
PipelineConfigVertexFetch(base_addr, vertex_count, vertex_stride) ==
    /\ base_addr # 0
    /\ vertex_count # 0
    /\ regs' = [regs EXCEPT !["VERTEX_BASE"] = base_addr,
                            !["VERTEX_COUNT"] = vertex_count,
                            !["VERTEX_STRIDE"] =
                                IF vertex_stride = 0 THEN DefaultVertexStride
                                ELSE vertex_stride]
    /\ UNCHANGED <<schedvars, resetvars, ringvars, irqvars>>
    /\ UNCHANGED depvars
    /\ UNCHANGED histvars
    /\ UNCHANGED prodvars
    /\ UNCHANGED mkvars
    /\ UNCHANGED retvars
    /\ UNCHANGED fencevars
    /\ UNCHANGED seqvars
    /\ UNCHANGED healthvars
    /\ UNCHANGED valvars
    /\ UNCHANGED pollvars
    /\ UNCHANGED bovars

\* mgpu_pipeline_execute_shader
PipelineExecuteShader(slot) ==
    /\ regs' = [regs EXCEPT !["SHADER_PC"] = slot * ShaderSlotDwords]
    /\ UNCHANGED <<schedvars, resetvars, ringvars, irqvars>>
    /\ UNCHANGED depvars
    /\ UNCHANGED histvars
    /\ UNCHANGED prodvars
    /\ UNCHANGED mkvars
    /\ UNCHANGED retvars
    /\ UNCHANGED fencevars
    /\ UNCHANGED seqvars
    /\ UNCHANGED healthvars
    /\ UNCHANGED valvars
    /\ UNCHANGED pollvars
    /\ UNCHANGED bovars

\* mgpu_pipeline_stall
PipelineStall ==
    /\ regs' = [regs EXCEPT !["CONTROL"] = bit_or(@, MGPU_CTRL_PAUSE)]
    /\ UNCHANGED <<schedvars, resetvars, ringvars, irqvars>>
    /\ UNCHANGED depvars
    /\ UNCHANGED histvars
    /\ UNCHANGED prodvars
    /\ UNCHANGED mkvars
    /\ UNCHANGED retvars
    /\ UNCHANGED fencevars
    /\ UNCHANGED seqvars
    /\ UNCHANGED healthvars
    /\ UNCHANGED valvars
    /\ UNCHANGED pollvars
    /\ UNCHANGED bovars

\* mgpu_pipeline_resume
PipelineResume ==
    /\ regs' = [regs EXCEPT !["CONTROL"] = bit_clear(@, MGPU_CTRL_PAUSE)]
    /\ UNCHANGED <<schedvars, resetvars, ringvars, irqvars>>
    /\ UNCHANGED depvars
    /\ UNCHANGED histvars
    /\ UNCHANGED prodvars
    /\ UNCHANGED mkvars
    /\ UNCHANGED retvars
    /\ UNCHANGED fencevars
    /\ UNCHANGED seqvars
    /\ UNCHANGED healthvars
    /\ UNCHANGED valvars
    /\ UNCHANGED pollvars
    /\ UNCHANGED bovars

NextRegs ==
    \/ \E b \in VertexBases, c \in VertexCounts, st \in VertexStrides :
           PipelineConfigVertexFetch(b, c, st)
    \/ \E slot \in ShaderSlots : PipelineExecuteShader(slot)
    \/ PipelineStall
    \/ PipelineResume
    \/ ResetSchedule
    \/ ResetWorkBegin
    \/ ResetWorkSetFlag
    \/ \E hw_ok \in BOOLEAN : ResetWorkFinish(hw_ok)

SpecRegs == Init /\ [][NextRegs]_vars

\* ---- the scheduler with its dependency edges: mgpu_sched_submit records
\* the dependency its caller names before it queues the job
NextDeps ==
    \/ \E d \in 0 .. MaxJobs : JobAlloc(MaxJobs, MGPU_PRIORITY_NORMAL, FALSE, d)
    \/ \E j \in Jobs : SchedSubmitFill(j)
    \/ \E j \in Jobs, alloc_ok \in BOOLEAN : JobAddDependency(j, alloc_ok)
    \/ \E j \in Jobs : SchedSubmitJob(j)
    \/ \E skip \in BOOLEAN : ProcessQueueSelect(skip)
    \/ ProcessQueueMark
    \/ \E copied \in BOOLEAN : ProcessQueueStart(copied)
    \/ ProcessQueueCountLoad
    \/ ProcessQueueCountStore
    \/ \E hw_busy \in BOOLEAN, hw_error \in BOOLEAN : QueueIrqHandler(hw_busy, hw_error)
    \/ QueueIrqComplete
    \/ \E id \in 2 .. (MaxJobs + 1), skip \in BOOLEAN : SchedCancelJob(id, skip)
    \/ \E j \in Jobs : Tick(j)
    \/ \E skip \in BOOLEAN : SchedTimeoutWork(skip)

SpecDeps == Init /\ [][NextDeps]_vars

\* ---- the interrupt path alone
NextIrq ==
    \/ \E f \in IrqRegistrars : RequestIrq(f)
    \/ \E b \in IrqBits : DeviceRaiseIrq(b)
    \/ IrqHandlerAck
    \/ IrqHandlerLoad
    \/ IrqHandlerStore
    \/ IrqTaskletLoad
    \/ IrqTaskletClear
    \/ IrqTaskletDispatch

SpecIrq == Init /\ [][NextIrq]_vars

\* ---- the start of jobs and their completion interrupt: callers submit,
\* the worker starts jobs, the hand-over to the ring succeeds or fails, and
\* the interrupt handler runs whenever the pipeline reads idle
NextStart ==
    \/ \E p \in PriorityArgs : JobAlloc(MaxStartJobs, p, FALSE, 0)
    \/ \E j \in Jobs : SchedSubmitFill(j)
    \/ \E j \in Jobs : SchedSubmitJob(j)
    \/ \E skip \in BOOLEAN : ProcessQueueSelect(skip)
    \/ ProcessQueueMark
    \/ \E copied \in BOOLEAN : ProcessQueueStart(copied)
    \/ ProcessQueueCountLoad
    \/ ProcessQueueCountStore
    \/ \E hw_error \in BOOLEAN : QueueIrqHandler(FALSE, hw_error)
    \/ QueueIrqComplete

SpecStart == Init /\ [][NextStart]_vars

\* ---- the reset engine and the submission path together: the callers of
\* mgpu_submit_commands go on calling while resets are requested and run
DevCmdDwords == {1, 512}

NextDev ==
    \/ ResetSchedule
    \/ ResetWorkBegin
    \/ ResetWorkSetFlag
    \/ \E hw_ok \in BOOLEAN : ResetWorkFinish(hw_ok)
    \/ \E dw \in DevCmdDwords, fence \in BOOLEAN, copied \in BOOLEAN :
           SubmitCommands(dw, fence, copied)
    \/ \E k \in DrainDwords : DeviceConsume(k)

SpecDev == Init /\ [][NextDev]_vars

\* ---- the worker's hand-over to a ring that other submitters fill: jobs
\* are submitted and started while the draw and submit ioctls write the same
\* ring through mgpu_submit_commands and the device drains it; the copy of
\* the job's commands succeeds, so a hand-over fails for want of space only
RetryCmdDwords == {512, 1023}

NextRetry ==
    \/ \E p \in PriorityArgs : SchedSubmitAlloc(p, FALSE, 0)
    \/ \E j \in Jobs : SchedSubmitFill(j)
    \/ \E j \in Jobs : SchedSubmitJob(j)
    \/ \E skip \in BOOLEAN : ProcessQueueSelect(skip)
    \/ ProcessQueueMark
    \/ ProcessQueueStart(TRUE)
    \/ ProcessQueueCountLoad
    \/ ProcessQueueCountStore
    \/ \E dw \in RetryCmdDwords : SubmitCommands(dw, FALSE, TRUE)
    \/ \E k \in DrainDwords : DeviceConsume(k)

SpecRetry == Init /\ [][NextRetry]_vars

\* ------------------------------------------------------------------ claims
\* C1: the completion latch of every job is signalled at most once, whatever
\* the interleaving of IRQ completion, cancellation, teardown and the sweep.
C1_SignalledAtMostOnce == \A j \in Jobs : signals[j] <= 1

\* C2: a job accepted by mgpu_sched_submit_job with dep_count 0 eventually
\* reaches the running state, as long as the scheduler is up and its queue
\* has capacity.
C2_QueuedJobEventuallyRuns ==
    \A j \in Jobs :
        [](state[j] = "QUEUED" /\ dep_count[j] = 0
             => <>(state[j] # "QUEUED" \/ current_job # 0 \/ fpc # "run" \/ panic))

\* C3: priority dominance: the worker never hands a job to the ring while a
\* job of a higher priority is queued and waiting.
C3_PriorityDominance ==
    [][\A j \in Jobs :
          state[j] # "RUNNING" /\ state'[j] = "RUNNING"
            => ~\E k \in Jobs : state[k] = "QUEUED" /\ priority[k] > priority[j]]_vars

\* C6: a job whose submission names a dependency is handed to the hardware
\* only after that dependency completed (a chain starts and completes in
\* the order of its dependencies).
C6_StartsAfterDependency ==
    \A j \in Jobs :
        state[j] = "RUNNING" /\ args[j].dep # 0 => state[args[j].dep] = "COMPLETED"

Rank(st) ==
    CASE st = "NONE" -> 0
      [] st = "PENDING" -> 1
      [] st = "QUEUED" -> 2
      [] st = "RUNNING" -> 3
      [] OTHER -> 4

\* C7: a job's state only moves forward along pending, queued, running,
\* terminal, and a terminal state never changes again.
C7_MonotonicStates ==
    [][\A j \in Jobs : state'[j] # state[j] => Rank(state[j]) < Rank(state'[j])]_vars

C9_TerminalIsSignalledAndMoved ==
    \A j \in Jobs :
        state[j] \in Terminal
          => /\ signals[j] >= 1
             /\ \E i \in 1 .. Len(list_walk(Lists, completed_jobs, TRUE).jobs) :
                    list_walk(Lists, completed_jobs, TRUE).jobs[i] = j

\* C4: a ring write never stores over dwords the device has not consumed,
\* and the tail never reaches the head: at most size/4 - 1 dwords are ever
\* written and unconsumed.
C4_NoOverwrite == ~clobbered /\ owned <= RingDwords - 1

\* C5: the ring's free space is (size/4 - 1) - ((tail - head) mod size/4)
\* dwords for every head and tail; 1023 for the empty 4096-byte ring.
C5_SpaceInDwords ==
    mgpu_ring_space(cmd_head, ring_tail)
        = (RingDwords - 1) - ((ring_tail - cmd_head) % RingDwords)

\* C10: while a reset cycle is in progress a schedule request is a no-op:
\* no further run of the reset work is queued behind the running one.
C10_OneResetCycle == rpc # "idle" => ~reset_pending

\* C11: the reset counter counts reset cycles: whenever no reset is queued or
\* running, reset_count equals the number of runs of mgpu_reset_work, however
\* many callers of mgpu_reset_schedule asked for each of them.
C11_CountIsCycles == rpc = "idle" /\ ~reset_pending => reset_count = cycles

\* C12: while in_reset is set no submission is accepted: no step taken with
\* in_reset = 1 writes the ring (ring->tail moves), rings the doorbell or
\* counts a submitted command.
C12_NoSubmissionDuringReset ==
    [][in_reset = 1 => /\ ring_tail' = ring_tail
                       /\ doorbells' = doorbells
                       /\ submitted_cmds' = submitted_cmds]_vars

\* C14: the in-flight count of the queue, queue->pending_starts read as the
\* unsigned number it is, stays between 0 and queue_depth at all times while
\* the kernel is up.
C14_InFlightWithinDepth == ~panic => pending_starts \in 0 .. QUEUE_DEPTH

\* C15: a job in state running is the queue's current job (the scheduler
\* modelled has one queue, so "exactly one queue" is this one).
C15_RunningIsCurrent == \A j \in Jobs : state[j] = "RUNNING" => current_job = j

\* C16: a job that mgpu_sched_cancel_job has cancelled (it was pending or
\* queued, and carries the cancellation error as its result) is never handed
\* to the hardware afterwards.
C16_CancelledNeverStarted ==
    [][\A j \in Jobs : result[j] = ECANCELED /\ state[j] # "RUNNING"
                          => state'[j] # "RUNNING"]_vars

\* C17: a job whose hand-over to the ring has failed for want of ring space
\* stays eligible: when the worker puts the job it holds back because
\* mgpu_ring_wait_space timed out, the job is still in state pending or
\* queued, so that a later pass can start it.
C17_FailedStartStaysEligible ==
    [][\A j \in Jobs :
          /\ sel = j /\ started = "marked" /\ sel' = 0
          /\ commands[j]
          /\ mgpu_ring_wait_space(cmd_head, ring_tail, JobCmdDwords) # 0
          => state'[j] \in {"PENDING", "QUEUED"}]_vars

\* C18: the return of a waiter from mgpu_sched_wait_job, timed out or not,
\* leaves the state of the job it waited for as it was.
C18_WaitLeavesStateAlone ==
    [][\A j \in Jobs : spc[j] = "wait" /\ spc'[j] = "ret"
                          => state'[j] = state[j]]_vars

\* C19: every reset cycle terminates: once in_reset is set it is cleared
\* again, and every caller asleep in mgpu_reset_wait is woken.
C19_ResetCycleTerminates ==
    /\ (in_reset = 1 ~> in_reset = 0)
    /\ \A w \in Waiters : (wpc[w] = "blocked" ~> wpc[w] # "blocked")

\* a cycle has ended, in_reset is clear, and a caller that slept through it
\* has been woken by it
C19_Witness ==
    /\ cycles >= 1
    /\ rpc = "idle"
    /\ in_reset = 0
    /\ \E w \in Waiters : wpc[w] = "woken"

\* C20: once the hardware reset step of a cycle has failed the device is
\* dead: no submission is accepted any more (nothing reaches the ring, the
\* CMD_TAIL register or the doorbell).
C20_DeadAfterFailedReset ==
    [][reset_failed => /\ ring_tail' = ring_tail
                       /\ doorbells' = doorbells
                       /\ submitted_cmds' = submitted_cmds]_vars

\* C13: every bit the top half has read and acknowledged is dispatched by
\* the bottom half: until then it is held by the top half, by
\* mdev->irq_status or by the tasklet, never overwritten or dropped.
C13_AckedBitsAreKept == owed \subseteq (th_status \cup irq_status \cup bh_status)

\* C21: a reset cycle that succeeds leaves the host-programmed registers
\* (control, interrupt enable, command base and size, fence address, vertex
\* base, count and stride, shader PC) at the values they had before it.
C21_RegistersSurviveReset ==
    [][(rpc = "in_reset" /\ rpc' = "idle" /\ ~reset_failed') => regs' = regs]_vars

\* C22: when the completion interrupt is handled with the device no longer
\* busy, the queue's running job is completed (with -EIO when the status
\* shows an error, with 0 otherwise) and the in-flight count goes down by
\* exactly one.
C22_IrqCompletesRunningJob ==
    [][(ipc = "dec" /\ ipc' = "idle") =>
          /\ state'[irq_job] = (IF irq_err THEN "ABORTED" ELSE "COMPLETED")
          /\ result'[irq_job] = (IF irq_err THEN EIO ELSE 0)
          /\ pending_starts' = u32_dec(pending_starts)]_vars

QueuedBefore(k, j) ==
    \E a \in 1 .. Len(qseq) :
        /\ qseq[a] = k
        /\ \A b \in 1 .. a : qseq[b] # j

\* C24: within one priority bucket the ready jobs are started in the order
\* they were queued: the worker never starts a job out of a bucket while a
\* job queued before it in that bucket is still waiting with no dependency
\* left.
C24_FifoWithinBucket ==
    [][\A j \in Jobs :
          state[j] # "RUNNING" /\ state'[j] = "RUNNING"
            => ~\E k \in Jobs : /\ k # j
                                /\ state[k] = "QUEUED"
                                /\ dep_count[k] = 0
                                /\ priority[k] = selp
                                /\ QueuedBefore(k, j)]_vars

\* C25: mgpu_sched_submit queues the job at the tail of the bucket of the
\* priority class its caller asked for, whichever of the classes that is.
C25_QueuedInRequestedBucket ==
    [][\A j \in Jobs :
          spc[j] = "filled" /\ spc'[j] \in {"wait", "ret"}
            => prv'[pending(args[j].priority)] = j]_vars

\* C26: between a producer's write to the ring and its kick nothing else
\* writes ring->tail or the CMD_TAIL register: every path that does is
\* serialized by mdev->cmd_lock.
C26_WritersSerialized ==
    [][\A pr \in Producers :
          /\ ppc[pr] \in {"stored", "written", "tailed"}
          /\ (ring_tail' # ring_tail \/ cmd_tail' # cmd_tail)
          => ppc'[pr] # ppc[pr]]_vars

\* C27: in every submission the payload stores come before the write of
\* CMD_TAIL and the write of CMD_TAIL before the doorbell: a producer writes
\* CMD_TAIL only when all it has to store (its fence command included) is
\* in the ring and ring->tail is behind it, and the doorbell is rung only
\* with CMD_TAIL at ring->tail.
C27_StoresThenTailThenDoorbell ==
    [][/\ \A pr \in Producers :
             ppc[pr] # "tailed" /\ ppc'[pr] = "tailed"
               => /\ ~pfence[pr]
                  /\ ring_tail = mem_upto
                  /\ cmd_tail' = mem_upto
       /\ doorbells' # doorbells
             => cmd_tail = ring_tail /\ ring_tail = mem_upto]_vars

\* a submission with a fence command has gone all the way to the doorbell
C27_Witness ==
    /\ ppc["submit"] = "kicked"
    /\ doorbells = 2
    /\ cmd_tail = mem_upto
    /\ cmd_tail = 1 + FenceDwords + DmaDwords

\* C28: a ring's size is the requested size rounded up to a power of two,
\* within [4096, 262144]; a new ring is empty with head and tail 0; and
\* head and tail stay within [0, size / 4) whatever is written, suspended
\* and resumed.
C28_RingSizeAndIndices ==
    mring # NoRing =>
        /\ is_power_of_2(mring.size)
        /\ mring.size >= MGPU_RING_SIZE_MIN
        /\ mring.size <= MGPU_RING_SIZE_MAX
        /\ mring.size >= mring.asked
        /\ mring.size < 2 * mring.asked
        /\ mring.writes = 0 /\ mring.last_head = 0 => mring.head = 0 /\ mring.tail = 0
        /\ mring.tail >= 0 /\ mring.tail < mring.size \div 4
        /\ mring.head >= 0 /\ mring.head < mring.size \div 4

\* C29: a call of mgpu_submit_commands that finds the ring without room
\* for its commands (fewer free dwords than it has to write) returns -EBUSY;
\* it never returns 0.
C29_FullRingIsBusy ==
    [][\A dw \in CmdDwords, fence \in BOOLEAN :
          /\ SubmitCommands(dw, fence, TRUE)
          /\ mgpu_ring_space_dwords(cmd_head, ring_tail)
                 < dw + (IF fence THEN FenceDwords ELSE 0)
          => sub_ret' = EBUSY]_vars

\* C30: mgpu_wait_fence returns 0 at once when the fence is signaled at the
\* call; it returns 0 only for a signaled fence and -ETIMEDOUT only for one
\* that is not; and once the cell has reached the value and the fence
\* interrupt has been processed, no waiter for it is left asleep (no wakeup
\* is lost).
C30_FenceWait ==
    [][\A w \in Waiters :
          /\ \A fence_addr \in FenceOffsets \cup {OutsidePage},
                fence_value \in FenceValues, timeout_ms \in FenceTimeouts :
                 /\ FenceWaitCall(w, fence_addr, fence_value, timeout_ms)
                 /\ mgpu_fence_signaled(cells, fence_addr, fence_value)
                 => fwret'[w] = <<0>> /\ fwpc'[w] = "idle"
          /\ OnWaitList(w) /\ fwret'[w] = <<0>> => FenceReached(w)
          /\ OnWaitList(w) /\ fwret'[w] = <<ETIMEDOUT>> => ~FenceReached(w)
          /\ ~(fwpc'[w] = "blocked" /\ FenceReached(w)' /\ ~fence_irq')]_vars

\* C31: every call of mgpu_fence_next returns a value that is not zero, and
\* from the second call on one more than, and greater than, the value the
\* call before returned.
C31_NextIsPreviousPlusOne ==
    \A i \in 1 .. Len(next_ret) :
        /\ next_ret[i] # 0
        /\ i > 1 => /\ next_ret[i] = u32_inc(next_ret[i - 1])
                    /\ ~u32_ge(next_ret[i - 1], next_ret[i])

\* C32: a reset is scheduled on account of the heartbeat only when the
\* mismatches in a row have passed a threshold: a health check that finds the
\* first mismatch after a good probe (or after none), and finds neither the
\* error threshold passed nor a hang, schedules no reset.
C32_IsolatedMissSchedulesNoReset ==
    [][(/\ hlast'.n # hlast.n
        /\ hlast'.kind = "health"
        /\ ~hlast'.alive
        /\ hlast'.run = 1
        /\ ~hlast'.errs
        /\ ~hlast'.hung)
       => (/\ requests' = requests
           /\ reset_pending' = reset_pending
           /\ reset_count' = reset_count)]_vars

\* C33: a hang is declared only if STATUS has BUSY set and both CMD_HEAD and
\* the fence value have been unchanged for longer than the hang timeout: a
\* move of either within the last 5 seconds prevents it.
C33_HangOnlyIfBothStuck ==
    [][(hlast'.n # hlast.n /\ hlast'.hung)
       => (/\ hlast'.busy
           /\ hw.now - hw.head_at > MGPU_HEARTBEAT_TIMEOUT_MS \div MsPerTick
           /\ hw.now - hw.fence_at > MGPU_HEARTBEAT_TIMEOUT_MS \div MsPerTick)]_vars

\* the device's walk over the dwords of the ring from dword ptr on finds a
\* REG_WRITE or REG_READ record
RECURSIVE privileged_from(_, _)
privileged_from(words, ptr) ==
    IF ptr >= Len(words) THEN FALSE
    ELSE \/ hdr_opcode(words[ptr + 1]) \in {MGPU_CMD_REG_WRITE, MGPU_CMD_REG_READ}
         \/ privileged_from(words, ptr + Max(1, hdr_size(words[ptr + 1])))

\* C34: no REG_WRITE or REG_READ record of a user buffer reaches the ring,
\* whichever path submits it: the record is stored as a NOP, or nothing of
\* the buffer is stored.
C34_NoPrivilegedOpcodeInRing == ~privileged_from(ring_words, 0)

\* the [min, max] dwords the specification's table gives an opcode; <<>> for
\* an opcode that is not in the table
TableBounds(opcode) ==
    CASE opcode = MGPU_CMD_NOP -> <<1, 1>>
      [] opcode = MGPU_CMD_DRAW -> <<5, 8>>
      [] opcode = MGPU_CMD_COMPUTE -> <<4, 8>>
      [] opcode = MGPU_CMD_DMA -> <<4, 5>>
      [] opcode = MGPU_CMD_FENCE -> <<3, 3>>
      [] opcode = MGPU_CMD_WAIT -> <<2, 3>>
      [] opcode = MGPU_CMD_REG_WRITE -> <<3, 3>>
      [] opcode = MGPU_CMD_REG_READ -> <<3, 3>>
      [] OTHER -> <<>>

\* the extra rules of the table for the record at dword ptr
TableRules(cmds, ptr, vertex_base) ==
    LET opcode == hdr_opcode(cmds[ptr + 1])
    IN  /\ opcode = MGPU_CMD_DRAW =>
               /\ cmds[ptr + 2] \in 1 .. 65536
               /\ cmds[ptr + 3] >= 1
               /\ vertex_base # 0
        /\ opcode = MGPU_CMD_DMA =>
               /\ cmds[ptr + 4] \in 1 .. 16 * 1024 * 1024
               /\ cmds[ptr + 2] % 4 = 0
               /\ cmds[ptr + 3] % 4 = 0
               /\ cmds[ptr + 4] % 4 = 0
        /\ opcode = MGPU_CMD_FENCE => cmds[ptr + 2] % 4 = 0

\* every record from dword ptr on has an opcode of the table, a size within
\* its bounds and within the rest of the buffer, and obeys the extra rules
RECURSIVE well_formed_from(_, _, _)
well_formed_from(cmds, ptr, vertex_base) ==
    IF ptr >= Len(cmds) THEN TRUE
    ELSE LET b == TableBounds(hdr_opcode(cmds[ptr + 1]))
             size == hdr_size(cmds[ptr + 1])
         IN  /\ b # <<>>
             /\ size >= b[1]
             /\ size <= b[2]
             /\ ptr + size <= Len(cmds)
             /\ TableRules(cmds, ptr, vertex_base)
             /\ well_formed_from(cmds, ptr + size, vertex_base)

\* C35: the validator accepts a buffer exactly if every record has a known
\* opcode, a size within the opcode's bounds and within the rest of the
\* buffer, and obeys the opcode's rules; it ends after at most one turn per
\* dword, reads no dword past the buffer, and a call that rejects the buffer
\* leaves the ring and the registers as they were.
C35_ValidatorAcceptsExactlyWellFormed ==
    [][vres' # vres =>
         LET r == vres'[1]
         IN  /\ (r.ret = 0) <=> well_formed_from(stream, 0, r.vertex_base)
             /\ r.hi <= Len(stream)
             /\ r.iters <= Len(stream)
             /\ r.ret # 0 => UNCHANGED <<ringvars, regvars, ring_words>>]_vars

\* C36: a call of mgpu_submit_commands that returns an error leaves the host
\* tail where it was: nothing of the failed submission can be published by a
\* later kick.
C36_FailedSubmitKeepsTail ==
    [][\A dw \in CmdDwords, fence \in BOOLEAN, copied \in BOOLEAN :
          /\ SubmitCommands(dw, fence, copied)
          /\ sub_ret' # 0
          => ring_tail' = ring_tail]_vars

\* a reset cycle has run to its end, with success, and none is asked for
ResetCycleOver ==
    /\ cycles >= 1
    /\ rpc = "idle"
    /\ ~reset_pending
    /\ in_reset = 0
    /\ ~reset_failed

\* a timed-out job still holds the running slot of the queue
TimedOutHoldsSlot == \E j \in Jobs : state[j] = "TIMEOUT" /\ current_job = j

\* C37: once the job in a queue's running slot is timed out and the reset
\* cycle is over, the slot is released, so that the jobs waiting in the queue
\* can be started (unless the scheduler or its worker went down).
C37_SlotReleasedAfterReset ==
    [](/\ TimedOutHoldsSlot
       /\ ResetCycleOver
       /\ \E k \in Jobs : state[k] = "QUEUED"
       => <>(~TimedOutHoldsSlot \/ fpc # "run" \/ panic \/ queue_lock = "dead"))

\* C38: a bounded poll fails with a timeout exactly when none of its polls
\* found what it waits for: a wait whose last poll reads STATUS_IDLE (or
\* CMD_HEAD = CMD_TAIL) succeeds, and one that never reads it times out.
C38_PollSucceedsIffObserved ==
    poll.phase = "done" => ((poll.ret # ETIMEDOUT) <=> poll.seen)

\* a thread has a reference to the object that it has not put yet
HoldsReference(u) == bu[u].held = 1 \/ bu[u].dpc # "idle"

\* C39: a buffer object is freed at most once and only when nobody holds a
\* reference to it; no count operation runs on it after its last reference
\* is gone; and once mgpu_bo_destroy has dropped its two references for a
\* return of 0, and mgpu_bo_free is not still running, a lookup of the handle
\* finds nothing.
C39_FreedOnceAfterLastReference ==
    /\ bo.frees <= 1
    /\ ~bo.uaf
    /\ bo.state \in {"dying", "freed"} => \A u \in BoUsers : ~HoldsReference(u)
    /\ bo.destroyed /\ bo.state # "dying" => ~bo.in_idr

====
